---- MODULE Spec2Model ----
(***************************************************************************)
(* The file-system backed project store of gg-novel                        *)
(* (electron/services/projectStore.ts): the hierarchical node store, the   *)
(* autosave / canonical reconciliation and the snapshot timeline.          *)
(*                                                                         *)
(* The workspace directory is the state.  Every exported operation of the  *)
(* store is an operator from a project directory to a project directory,   *)
(* written statement by statement from the source, and one action applies  *)
(* it.  Date.now() and the file system's modification times read one       *)
(* clock, `now`, which the environment advances (Tick) and which may stay  *)
(* the same between two operations.                                        *)
(***************************************************************************)
EXTENDS Integers, Sequences, FiniteSets, TLC

VARIABLES
    projects,   \* PROJECTS_ROOT: project id -> project directory
    projectOrder, \* ORDER_FILE (projects.json): the sequence of project ids
    now,        \* the clock read by Date.now() and by the file system
    nextId,     \* how many node ids crypto.randomUUID() has issued
    ops,        \* number of store operations run so far
    last,       \* the last operation: its name, its arguments, what it returned
    calls       \* project id -> the call in flight on that project, step by step

vars == <<projects, projectOrder, now, nextId, ops, last, calls>>

-----------------------------------------------------------------------------
(* Bounds of the model *)

MaxNodes == 3       \* node ids issued per run
MaxOps == 4         \* store operations per run, from a fresh project
MaxEdits == 2       \* save / autosave calls per run, on a project with chapters
MaxTicks == 2       \* clock advances per run
MaxCommits == 22    \* successive commits to one leaf
MaxTies == 2        \* commits that read the same clock value as the one before
MaxReorders == 1    \* reorderChapters calls per run, on a project with chapters
MaxOrderLen == 2    \* length of a caller's id list
MaxProjects == 2    \* projects created per run
MaxProjectOps == 4  \* workspace operations per run
MaxTimelineOps == 2 \* save / autosave / deleteSnapshot calls per run
MaxCalls == 2       \* calls per run, on two projects at once
MaxLoads == 2       \* loads of one stored record per run
MaxContentOps == 2  \* calls per run on a project that holds content
MaxViewerOps == 4   \* clicks per run in the timeline viewer
MaxRequests == 2    \* snapshot reads in flight at once
MaxAdvances == 1    \* clock advances per run, on two projects at once

(* Program constants *)

MAX_SNAPSHOTS == 20
T0 == 10            \* the clock at start; all timestamps of a run have the
                    \* same number of decimal digits, as Date.now() has

IdPool == <<"n1", "n2", "n3", "n4", "n5", "n6", "n7", "n8">>
Ghost == "ghost"            \* an id no createChapter ever issued
NoParent == ""              \* parentId undefined / null / '' (falsy)
TheProject == "p1"          \* the uuid createProject issued at start
Kinds == {"chapter", "group"}
DEFAULT_CHAPTER_KIND == "chapter"

\* The contents a caller submits: '', 'a', 'a ' (as code points)
Contents == {<< >>, <<"a">>, <<"a", " ">>}

NoMeta == [none |-> TRUE]   \* project.json absent or unparseable
Null == [null |-> TRUE]     \* the JS value null

-----------------------------------------------------------------------------
(* Partial functions: directories as maps from file name to file *)

Put(f, k, v) == [x \in (DOMAIN f) \cup {k} |-> IF x = k THEN v ELSE f[x]]
Drop(f, k) == [x \in (DOMAIN f) \ {k} |-> f[x]]
EmptyDir == << >>

RECURSIVE SumSeq(_)
SumSeq(s) == IF s = << >> THEN 0 ELSE Head(s) + SumSeq(Tail(s))

RECURSIVE FlatSeq(_)
FlatSeq(ss) == IF ss = << >> THEN << >> ELSE Head(ss) \o FlatSeq(Tail(ss))

-----------------------------------------------------------------------------
(* Strings *)

IsSpace(ch) == ch = " "

\* (value ?? '').replace(/\s+$/g, '')
RECURSIVE normalize(_)
normalize(value) ==
    IF value # << >> /\ IsSpace(value[Len(value)])
    THEN normalize(SubSeq(value, 1, Len(value) - 1))
    ELSE value

\* [...content].length: the number of code points
CodePoints(content) == Len(content)

-----------------------------------------------------------------------------
(* The node tree (ChapterMeta[]): nested records, children in order.         *)
(* A node is [id, kind, words, updatedAt, children].                        *)

NewNode(id, kind, t) ==
    [id |-> id, kind |-> kind, words |-> 0, updatedAt |-> t, children |-> << >>]

RECURSIVE findChapterMeta(_, _)
findChapterMeta(nodes, chapterId) ==
    IF nodes = << >> THEN Null
    ELSE LET node == Head(nodes)
         IN  IF node.id = chapterId THEN node
             ELSE LET childMatch == findChapterMeta(node.children, chapterId)
                  IN  IF childMatch # Null THEN childMatch
                      ELSE findChapterMeta(Tail(nodes), chapterId)

\* An assignment through the reference findChapterMeta returned: the first
\* node with that id, in the search order of findChapterMeta, is replaced.
RECURSIVE SetNode(_, _, _)
SetNode(nodes, chapterId, new) ==
    IF nodes = << >> THEN << >>
    ELSE LET node == Head(nodes)
         IN  IF node.id = chapterId THEN <<new>> \o Tail(nodes)
             ELSE IF findChapterMeta(node.children, chapterId) # Null
                  THEN <<[node EXCEPT !.children = SetNode(node.children, chapterId, new)]>>
                           \o Tail(nodes)
                  ELSE <<node>> \o SetNode(Tail(nodes), chapterId, new)

\* Returns [removed, nodes]: the detached subtree (or Null) and the forest left.
RECURSIVE removeChapterMeta(_, _)
RECURSIVE RemoveInChildren(_, _, _)
removeChapterMeta(nodes, chapterId) ==
    IF \E i \in 1..Len(nodes) : nodes[i].id = chapterId
    THEN LET index == CHOOSE i \in 1..Len(nodes) :
                          /\ nodes[i].id = chapterId
                          /\ \A j \in 1..(i - 1) : nodes[j].id # chapterId
         IN  [removed |-> nodes[index],
              nodes |-> SubSeq(nodes, 1, index - 1) \o SubSeq(nodes, index + 1, Len(nodes))]
    ELSE RemoveInChildren(nodes, chapterId, 1)

RemoveInChildren(nodes, chapterId, i) ==
    IF i > Len(nodes) THEN [removed |-> Null, nodes |-> nodes]
    ELSE LET r == removeChapterMeta(nodes[i].children, chapterId)
         IN  IF r.removed # Null
             THEN [removed |-> r.removed,
                   nodes |-> [nodes EXCEPT ![i].children = r.nodes]]
             ELSE RemoveInChildren(nodes, chapterId, i + 1)

\* Returns [ok, nodes].
RECURSIVE insertChapterMeta(_, _, _)
RECURSIVE InsertFrom(_, _, _, _)
insertChapterMeta(nodes, parentId, node) ==
    IF parentId = NoParent
    THEN [ok |-> TRUE, nodes |-> Append(nodes, node)]
    ELSE InsertFrom(nodes, parentId, node, 1)

InsertFrom(nodes, parentId, node, i) ==
    IF i > Len(nodes) THEN [ok |-> FALSE, nodes |-> nodes]
    ELSE IF nodes[i].id = parentId
         THEN [ok |-> TRUE,
               nodes |-> [nodes EXCEPT ![i].children = Append(nodes[i].children, node)]]
         ELSE LET r == insertChapterMeta(nodes[i].children, parentId, node)
              IN  IF r.ok
                  THEN [ok |-> TRUE, nodes |-> [nodes EXCEPT ![i].children = r.nodes]]
                  ELSE InsertFrom(nodes, parentId, node, i + 1)

\* order.forEach without map.delete: a child is taken at every mention of it
RECURSIVE PickEveryMention(_, _, _)
PickEveryMention(children, order, taken) ==
    IF order = << >> THEN << >>
    ELSE LET hit == {i \in 1..Len(children) : children[i].id = Head(order)}
         IN  IF hit # {}
             THEN <<children[CHOOSE i \in hit : TRUE]>>
                      \o PickEveryMention(children, Tail(order), taken)
             ELSE PickEveryMention(children, Tail(order), taken)

\* order.forEach: the children named in `order`, each once, in that order
RECURSIVE PickInOrder(_, _, _)
PickInOrder(children, order, taken) ==
    IF order = << >> THEN << >>
    ELSE LET id == Head(order)
             hit == {i \in 1..Len(children) : children[i].id = id /\ id \notin taken}
         IN  IF hit # {}
             THEN <<children[CHOOSE i \in hit : \A j \in hit : i <= j]>>
                      \o PickInOrder(children, Tail(order), taken \cup {id})
             ELSE PickInOrder(children, Tail(order), taken)

\* The children left in the map appended last to first
RestReversed(children, order) ==
    LET named == {order[i] : i \in 1..Len(order)}
        Rest(child) == child.id \notin named
        rest == SelectSeq(children, Rest)
    IN  PickInOrder(children, order, {}) \o [i \in 1..Len(rest) |-> rest[Len(rest) + 1 - i]]

ReorderedChildren(children, order) ==
    LET named == {order[i] : i \in 1..Len(order)}
        Rest(child) == child.id \notin named
    IN  PickInOrder(children, order, {}) \o SelectSeq(children, Rest)

\* Returns [ok, nodes].
reorderChapterChildren(nodes, parentId, order) ==
    IF parentId = NoParent
    THEN [ok |-> TRUE, nodes |-> ReorderedChildren(nodes, order)]
    ELSE LET parent == findChapterMeta(nodes, parentId)
         IN  IF parent = Null THEN [ok |-> FALSE, nodes |-> nodes]
             ELSE [ok |-> TRUE,
                   nodes |-> SetNode(nodes, parentId,
                       [parent EXCEPT !.children = ReorderedChildren(parent.children, order)])]

RECURSIVE collectChapterIds(_)
collectChapterIds(node) ==
    IF node.kind = "chapter" THEN <<node.id>>
    ELSE FlatSeq([i \in 1..Len(node.children) |-> collectChapterIds(node.children[i])])

RECURSIVE refreshAggregateWords(_)
refreshAggregateWords(node) ==
    IF node.kind = "chapter" THEN node
    ELSE LET kids == [i \in 1..Len(node.children) |-> refreshAggregateWords(node.children[i])]
         IN  [node EXCEPT !.children = kids,
                          !.words = SumSeq([i \in 1..Len(kids) |-> kids[i].words])]

RECURSIVE sumLeafWords(_)
sumLeafWords(chapters) ==
    IF chapters = << >> THEN 0
    ELSE LET chapter == Head(chapters)
         IN  (IF chapter.kind = "chapter" THEN chapter.words
              ELSE sumLeafWords(chapter.children)) + sumLeafWords(Tail(chapters))

updateProjectStats(meta) == [meta EXCEPT !.words = sumLeafWords(meta.chapters)]

refreshProjectAggregates(meta) ==
    updateProjectStats(
        [meta EXCEPT !.chapters =
            [i \in 1..Len(meta.chapters) |-> refreshAggregateWords(meta.chapters[i])]])

\* On records that carry every field only the group sum of line 45 acts.
RECURSIVE normalizeChapterTree(_)
normalizeChapterTree(chapters) ==
    [i \in 1..Len(chapters) |->
        LET chapter == chapters[i]
            kids == normalizeChapterTree(chapter.children)
        IN  [chapter EXCEPT
                !.children = kids,
                !.words = IF chapter.kind = "group"
                          THEN SumSeq([j \in 1..Len(kids) |-> kids[j].words])
                          ELSE chapter.words]]

\* Depth-first, a node before its children; only nodes of kind chapter.
RECURSIVE flattenChapterTree(_)
flattenChapterTree(chapters) ==
    IF chapters = << >> THEN << >>
    ELSE LET node == Head(chapters)
         IN  (IF node.kind = "chapter" THEN <<node>> ELSE << >>)
                 \o flattenChapterTree(node.children)
                 \o flattenChapterTree(Tail(chapters))


-----------------------------------------------------------------------------
(* The workspace on disk.                                                   *)
(*   projects[p]            the directory projects/<p>                      *)
(*     .meta                project.json, a record or NoMeta                *)
(*     .chapters[id]        chapters/<id>.md      [content, mtime]          *)
(*     .autosave[id]        autosave/<id>.draft   [content, mtime]          *)
(*     .timeline[id][ts]    timeline/<id>/<ts>.snapshot, its content        *)

EmptyProjectDir ==
    [meta |-> NoMeta, chapters |-> EmptyDir, autosave |-> EmptyDir, timeline |-> EmptyDir]

\* fs.mkdir(dir, { recursive: true }) below projects/<p>
ensureDir(fs, p) == IF p \in DOMAIN fs THEN fs ELSE Put(fs, p, EmptyProjectDir)

\* fs.writeFile: the file's modification time becomes the clock's value
WriteFile(dir, name, content, t) == Put(dir, name, [content |-> content, mtime |-> t])

readFileIfExists(dir, name) == IF name \in DOMAIN dir THEN dir[name].content ELSE << >>

\* A removal that leaves the file in place
KeepFile(dir, name) == dir

removeFileIfExists(dir, name) == Drop(dir, name)

\* fs.stat(path).catch(() => ({ mtimeMs: 0 }))
StatMtime(dir, name) == IF name \in DOMAIN dir THEN dir[name].mtime ELSE 0

\* The records this store writes carry every field, so none of the defaults of
\* lines 189-204 applies and `dirty` stays false: the load writes nothing.
loadProjectMeta(fs, p) ==
    IF p \notin DOMAIN fs \/ fs[p].meta = NoMeta THEN NoMeta
    ELSE refreshProjectAggregates(
             [fs[p].meta EXCEPT !.chapters = normalizeChapterTree(@)])

\* A metadata write that also clears the project's timeline directory
WriteMetaClearingTimeline(fs, p, meta) ==
    [ensureDir(fs, p) EXCEPT ![p].meta = meta, ![p].timeline = EmptyDir]

writeProjectMeta(fs, p, meta) == [ensureDir(fs, p) EXCEPT ![p].meta = meta]

touchProject(meta, t) == [meta EXCEPT !.updatedAt = t]

\* `${timestamp}.snapshot` as UTF-16 code units, up to and including the dot
\* (the rest of the name is the same in every file).
RECURSIVE Digits(_)
Digits(n) == IF n < 10 THEN <<48 + n>> ELSE Append(Digits(n \div 10), 48 + (n % 10))

SnapshotFileName(timestamp) == Append(Digits(timestamp), 46)

\* Array.prototype.sort() without a comparator: by code units
RECURSIVE LexLess(_, _)
LexLess(a, b) ==
    IF b = << >> THEN FALSE
    ELSE IF a = << >> THEN TRUE
    ELSE IF Head(a) # Head(b) THEN Head(a) < Head(b)
    ELSE LexLess(Tail(a), Tail(b))

FirstSorted(files) ==
    CHOOSE f \in files :
        \A g \in files \ {f} : LexLess(SnapshotFileName(f), SnapshotFileName(g))

\* while (sorted.length > MAX_SNAPSHOTS) rm(sorted.shift())
RECURSIVE EvictOldest(_)
EvictOldest(snaps) ==
    IF Cardinality(DOMAIN snaps) > MAX_SNAPSHOTS
    THEN EvictOldest(Drop(snaps, FirstSorted(DOMAIN snaps)))
    ELSE snaps

recordSnapshot(fs, p, chapterId, content, t) ==
    LET tl == fs[p].timeline
        dir == IF chapterId \in DOMAIN tl THEN tl[chapterId] ELSE EmptyDir
        written == Put(dir, t, content)
    IN  [fs EXCEPT ![p].timeline = Put(tl, chapterId, EvictOldest(written))]

\* A comparison that lets a tie go to the autosave
AutosaveNotOlder(autosaveMtime, canonicalMtime) == autosaveMtime >= canonicalMtime

\* autosaveStat.mtimeMs > canonicalStat.mtimeMs
AutosaveIsNewer(autosaveMtime, canonicalMtime) == autosaveMtime > canonicalMtime

\* A Chapter: the node with its draft; autosaveTimestamp is {} (undefined) or {t}.
RECURSIVE loadChapterWithAutosave(_, _)
loadChapterWithAutosave(dir, chapterMeta) ==
    LET children == [i \in 1..Len(chapterMeta.children) |->
                        loadChapterWithAutosave(dir, chapterMeta.children[i])]
        base == [id |-> chapterMeta.id, kind |-> chapterMeta.kind,
                 words |-> chapterMeta.words, updatedAt |-> chapterMeta.updatedAt,
                 children |-> children]
    IN  IF chapterMeta.kind = "group"
        THEN base @@ [draft |-> << >>, autosaveTimestamp |-> {}]
        ELSE LET canonicalMtime == StatMtime(dir.chapters, chapterMeta.id)
                 autosaveMtime == StatMtime(dir.autosave, chapterMeta.id)
             IN  IF AutosaveIsNewer(autosaveMtime, canonicalMtime)
                 THEN base @@ [draft |-> readFileIfExists(dir.autosave, chapterMeta.id),
                               autosaveTimestamp |-> {autosaveMtime}]
                 ELSE base @@ [draft |-> readFileIfExists(dir.chapters, chapterMeta.id),
                               autosaveTimestamp |-> {}]

\* The Project returned to the caller, or Null.
readProject(fs, p) ==
    LET meta == loadProjectMeta(fs, p)
    IN  IF meta = NoMeta THEN Null
        ELSE LET structure == [i \in 1..Len(meta.chapters) |->
                                  loadChapterWithAutosave(fs[p], meta.chapters[i])]
             IN  [id |-> meta.id, title |-> meta.title, description |-> meta.description,
                  createdAt |-> meta.createdAt, updatedAt |-> meta.updatedAt,
                  words |-> meta.words,
                  structure |-> structure,
                  chapters |-> flattenChapterTree(structure)]


-----------------------------------------------------------------------------
(* The exported operations.  Each takes the workspace, the arguments, and    *)
(* the clock, and returns [fs, ret]: the workspace after it and what it      *)
(* returns ("null", "project" for readProject of the workspace after it,    *)
(* "timestamp", "void").                                                    *)

Result(fs, ret) == [fs |-> fs, ret |-> ret]

\* Returns [fs, order]; `id` is the fresh uuid.
createProject(fs, order, id, title, description, t) ==
    LET initialMeta == [id |-> id, title |-> title, description |-> description,
                        createdAt |-> t, updatedAt |-> t, words |-> 0,
                        chapters |-> << >>]
    IN  [fs |-> writeProjectMeta(ensureDir(fs, id), id, initialMeta),
         order |-> Append(order, id)]

\* `chapterId` is the fresh uuid.
createChapter(fs, p, chapterId, kind, parentId, t) ==
    LET meta == loadProjectMeta(fs, p)
    IN  IF meta = NoMeta THEN Result(fs, "null")
        ELSE LET inserted == insertChapterMeta(meta.chapters, parentId,
                                               NewNode(chapterId, kind, t))
                 fs1 == IF kind = "chapter"
                        THEN [fs EXCEPT ![p].chapters = WriteFile(@, chapterId, << >>, t)]
                        ELSE fs
                 meta1 == touchProject(
                              refreshProjectAggregates(
                                  [meta EXCEPT !.chapters = inserted.nodes]), t)
             IN  Result(writeProjectMeta(fs1, p, meta1), "project")

\* A write to getChapterFilePath in place of getAutosavePath
WriteCanonicalFile(dir, chapterId, content, t) ==
    [dir EXCEPT !.chapters = WriteFile(@, chapterId, content, t)]

\* fs.writeFile(getAutosavePath(projectId, chapterId), content)
WriteAutosaveFile(dir, chapterId, content, t) ==
    [dir EXCEPT !.autosave = WriteFile(@, chapterId, content, t)]

autosaveChapter(fs, p, chapterId, content, t) ==
    LET fs0 == ensureDir(fs, p)
        fs1 == [fs0 EXCEPT ![p] = WriteAutosaveFile(@, chapterId, content, t)]
        meta == loadProjectMeta(fs1, p)
    IN  IF meta = NoMeta THEN Result(fs1, "timestamp")
        ELSE LET chapterMeta == findChapterMeta(meta.chapters, chapterId)
                 chapters1 ==
                     IF chapterMeta = Null THEN meta.chapters
                     ELSE SetNode(meta.chapters, chapterId,
                              refreshAggregateWords(
                                  [chapterMeta EXCEPT !.updatedAt = t,
                                                      !.words = CodePoints(content)]))
                 meta1 == touchProject([meta EXCEPT !.chapters = chapters1], t)
             IN  Result(writeProjectMeta(fs1, p, meta1), "timestamp")

\* An exact comparison in place of the normalized one
SameExactly(existing, content) == existing = content

\* normalize(existing) === normalize(content)
SameAfterNormalize(existing, content) == normalize(existing) = normalize(content)

saveChapter(fs, p, chapterId, content, t) ==
    LET meta == loadProjectMeta(fs, p)
    IN  IF meta = NoMeta THEN Result(fs, "null")
        ELSE LET chapterMeta == findChapterMeta(meta.chapters, chapterId)
             IN  IF chapterMeta = Null THEN Result(fs, "null")
                 ELSE LET existing == readFileIfExists(fs[p].chapters, chapterId)
                      IN  IF SameAfterNormalize(existing, content)
                          THEN Result(fs, "project")
                          ELSE LET chapters1 ==
                                       SetNode(meta.chapters, chapterId,
                                           [chapterMeta EXCEPT !.words = CodePoints(content),
                                                               !.updatedAt = t])
                                   meta1 == touchProject(
                                                refreshProjectAggregates(
                                                    [meta EXCEPT !.chapters = chapters1]), t)
                                   fs1 == writeProjectMeta(fs, p, meta1)
                                   fs2 == [fs1 EXCEPT ![p].chapters =
                                               WriteFile(@, chapterId, content, t)]
                                   fs3 == recordSnapshot(fs2, p, chapterId, content, t)
                                   fs4 == [fs3 EXCEPT ![p].autosave =
                                               removeFileIfExists(@, chapterId)]
                               IN  Result(fs4, "project")

RECURSIVE RemoveLeafFiles(_, _)
RemoveLeafFiles(dir, leafChapterIds) ==
    IF leafChapterIds = << >> THEN dir
    ELSE LET leafId == Head(leafChapterIds)
         IN  RemoveLeafFiles(
                 [dir EXCEPT !.chapters = removeFileIfExists(@, leafId),
                             !.autosave = removeFileIfExists(@, leafId),
                             !.timeline = Drop(@, leafId)],
                 Tail(leafChapterIds))

deleteChapter(fs, p, chapterId, t) ==
    LET meta == loadProjectMeta(fs, p)
    IN  IF meta = NoMeta THEN Result(fs, "null")
        ELSE LET r == removeChapterMeta(meta.chapters, chapterId)
             IN  IF r.removed = Null THEN Result(fs, "null")
                 ELSE LET leafChapterIds == collectChapterIds(r.removed)
                          meta1 == touchProject(
                                       refreshProjectAggregates(
                                           [meta EXCEPT !.chapters = r.nodes]), t)
                          fs1 == writeProjectMeta(fs, p, meta1)
                      IN  Result([fs1 EXCEPT ![p] = RemoveLeafFiles(@, leafChapterIds)],
                                 "project")

moveChapter(fs, p, chapterId, targetParentId, t) ==
    LET meta == loadProjectMeta(fs, p)
    IN  IF meta = NoMeta THEN Result(fs, "null")
        ELSE LET r == removeChapterMeta(meta.chapters, chapterId)
             IN  IF r.removed = Null THEN Result(fs, "null")
                 ELSE LET inserted == insertChapterMeta(r.nodes, targetParentId, r.removed)
                          meta1 == touchProject(
                                       refreshProjectAggregates(
                                           [meta EXCEPT !.chapters = inserted.nodes]), t)
                      IN  Result(writeProjectMeta(fs, p, meta1), "project")

reorderChapters(fs, p, parentId, order, t) ==
    LET meta == loadProjectMeta(fs, p)
    IN  IF meta = NoMeta THEN Result(fs, "null")
        ELSE LET reordered == reorderChapterChildren(meta.chapters, parentId, order)
                 meta1 == touchProject(
                              refreshProjectAggregates(
                                  [meta EXCEPT !.chapters = reordered.nodes]), t)
             IN  Result(writeProjectMeta(fs, p, meta1), "project")

renameProject(fs, p, title, t) ==
    LET meta == loadProjectMeta(fs, p)
    IN  IF meta = NoMeta THEN Result(fs, "null")
        ELSE Result(writeProjectMeta(fs, p, touchProject([meta EXCEPT !.title = title], t)),
                    "project")

updateProjectDescription(fs, p, description, t) ==
    LET meta == loadProjectMeta(fs, p)
    IN  IF meta = NoMeta THEN Result(fs, "null")
        ELSE Result(writeProjectMeta(fs, p,
                        touchProject([meta EXCEPT !.description = description], t)),
                    "project")

\* fs.rm(projectDir, { recursive: true, force: true })
deleteProject(fs, p) == Result(Drop(fs, p), "void")

SNAPSHOT_PREVIEW_LIMIT == 200

\* content.replace(/\s+/g, ' ')
RECURSIVE CollapseSpaces(_)
CollapseSpaces(s) ==
    IF s = << >> THEN << >>
    ELSE IF IsSpace(Head(s))
         THEN IF Len(s) > 1 /\ IsSpace(s[2]) THEN CollapseSpaces(Tail(s))
              ELSE <<" ">> \o CollapseSpaces(Tail(s))
         ELSE <<Head(s)>> \o CollapseSpaces(Tail(s))

\* String.prototype.trim
RECURSIVE TrimLeft(_)
TrimLeft(s) == IF s # << >> /\ IsSpace(Head(s)) THEN TrimLeft(Tail(s)) ELSE s

Trim(s) == normalize(TrimLeft(s))

buildSnapshotPreview(content) ==
    LET collapsed == Trim(CollapseSpaces(content))
    IN  IF Len(collapsed) <= SNAPSHOT_PREVIEW_LIMIT THEN collapsed
        ELSE SubSeq(collapsed, 1, SNAPSHOT_PREVIEW_LIMIT) \o <<".", ".", ".">>

\* Number(file.replace('.snapshot', '')) of a name's code units
RECURSIVE ParseNumber(_, _)
ParseNumber(name, acc) ==
    IF name = << >> \/ Head(name) = 46 THEN acc
    ELSE ParseNumber(Tail(name), 10 * acc + (Head(name) - 48))

\* sort((a, b) => b.timestamp - a.timestamp)
RECURSIVE Descending(_)
Descending(S) ==
    IF S = {} THEN << >>
    ELSE LET m == CHOOSE x \in S : \A y \in S : y <= x
         IN  <<m>> \o Descending(S \ {m})

\* The ChapterSnapshot[] of a chapter, newest first; [] when readdir throws.
listSnapshots(fs, p, chapterId) ==
    IF p \notin DOMAIN fs \/ chapterId \notin DOMAIN fs[p].timeline THEN << >>
    ELSE LET dir == fs[p].timeline[chapterId]
             stamps == Descending({ParseNumber(SnapshotFileName(f), 0) : f \in DOMAIN dir})
         IN  [i \in 1..Len(stamps) |->
                 [timestamp |-> stamps[i],
                  words |-> CodePoints(dir[stamps[i]]),
                  preview |-> buildSnapshotPreview(dir[stamps[i]])]]

\* The content of one snapshot, or Null.
readSnapshot(fs, p, chapterId, timestamp) ==
    IF /\ p \in DOMAIN fs
       /\ chapterId \in DOMAIN fs[p].timeline
       /\ timestamp \in DOMAIN fs[p].timeline[chapterId]
    THEN fs[p].timeline[chapterId][timestamp]
    ELSE Null


\* A removal that also takes the chapter's canonical and autosave files
RemoveChapterStorage(dir, chapterId, timestamp) ==
    [dir EXCEPT !.chapters = Drop(@, chapterId),
                !.autosave = Drop(@, chapterId),
                !.timeline = Drop(@, chapterId)]

\* fs.rm(getSnapshotPath(projectId, chapterId, timestamp), { force: true })
RemoveSnapshotFile(dir, chapterId, timestamp) ==
    IF chapterId \in DOMAIN dir.timeline
    THEN [dir EXCEPT !.timeline[chapterId] = Drop(@, timestamp)]
    ELSE dir

deleteSnapshot(fs, p, chapterId, timestamp) ==
    IF p \in DOMAIN fs
    THEN Result([fs EXCEPT ![p] = RemoveSnapshotFile(@, chapterId, timestamp)], "void")
    ELSE Result(fs, "void")


\* loadProjectOrder: the ids of projects.json ([] when it cannot be read);
\* saveProjectOrder: the new content of projects.json
loadProjectOrder(orderFile) == orderFile
saveProjectOrder(order) == order

\* missing.sort((a, b) => a.createdAt - b.createdAt): a stable sort
RECURSIVE InsertByCreatedAt(_, _, _)
InsertByCreatedAt(fs, sorted, id) ==
    IF sorted = << >> THEN <<id>>
    ELSE IF fs[id].meta.createdAt < fs[Head(sorted)].meta.createdAt
         THEN <<id>> \o sorted
         ELSE <<Head(sorted)>> \o InsertByCreatedAt(fs, Tail(sorted), id)

RECURSIVE SortByCreatedAt(_, _)
SortByCreatedAt(fs, ids) ==
    IF ids = << >> THEN << >>
    ELSE InsertByCreatedAt(fs, SortByCreatedAt(fs, SubSeq(ids, 1, Len(ids) - 1)), ids[Len(ids)])

\* `entries` is what readdir(PROJECTS_ROOT) returned, in the order it
\* returned it.  Returns [order, listed]: projects.json afterwards and the
\* ids of the Project[] returned.
listProjects(fs, orderFile, entries) ==
    LET InMap(id) == id \in DOMAIN fs /\ loadProjectMeta(fs, id) # NoMeta
        order == loadProjectOrder(orderFile)
        orderedIds == SelectSeq(order, InMap)
        Missing(id) == InMap(id) /\ \A i \in 1..Len(orderedIds) : orderedIds[i] # id
        missing == SortByCreatedAt(fs, SelectSeq(entries, Missing))
        normalizedOrder == orderedIds \o missing
    IN  [order |-> IF normalizedOrder # order THEN saveProjectOrder(normalizedOrder)
                   ELSE orderFile,
         listed |-> normalizedOrder]

reorderProjects(fs, orderFile, nextOrder, entries) ==
    LET existing == listProjects(fs, orderFile, entries)
        existingIds == existing.listed
        Exists(id) == \E i \in 1..Len(existingIds) : existingIds[i] = id
        filtered == SelectSeq(nextOrder, Exists)
        Remains(id) == \A i \in 1..Len(filtered) : filtered[i] # id
        remaining == SelectSeq(existingIds, Remains)
        finalOrder == filtered \o remaining
    IN  listProjects(fs, saveProjectOrder(finalOrder), entries)


-----------------------------------------------------------------------------
(* The state machine: the store's operations run one after another (one      *)
(* caller, each call awaited), with the clock advancing in between.         *)

IssuedIds == {IdPool[i] : i \in 1..nextId}
TargetIds == IssuedIds \cup {Ghost}             \* a node id a caller may name
ParentIds == TargetIds \cup {NoParent}
Titles == {"t1"}

\* Caller-supplied orderings: up to two issued ids, none repeated
OrderLists ==
    {<< >>} \cup {<<a>> : a \in IssuedIds}
            \cup {s \in [1..2 -> IssuedIds] : s[1] # s[2]}

NoOp ==
    [op |-> "none", id |-> NoParent, content |-> << >>, target |-> NoParent,
     kind |-> DEFAULT_CHAPTER_KIND, order |-> << >>, stamp |-> 0, listed |-> << >>, ret |-> "void", at |-> T0]

\* No call is split into its steps: every operation runs as a whole
NoCalls == << >>

Fresh == createProject(EmptyDir, << >>, TheProject, "t0", "d0", T0)

\* A fresh project: the workspace after createProject.
Init ==
    /\ projects = Fresh.fs
    /\ projectOrder = Fresh.order
    /\ now = T0
    /\ nextId = 0
    /\ ops = 0
    /\ last = NoOp
    /\ calls = NoCalls

\* Runs one operation: r is its [fs, ret], l the fields of `last` it sets.
Ran(r, l, max) ==
    /\ ops < max
    /\ ops' = ops + 1
    /\ projects' = r.fs
    /\ last' = [l EXCEPT !.ret = r.ret, !.at = now]
    /\ UNCHANGED <<projectOrder, now, calls>>

Tick ==
    /\ now < T0 + MaxTicks
    /\ now' = now + 1
    /\ UNCHANGED <<projects, projectOrder, nextId, ops, last, calls>>

CreateChapter(max) ==
    \E kind \in Kinds, parentId \in ParentIds :
        /\ nextId < MaxNodes
        /\ nextId' = nextId + 1
        /\ Ran(createChapter(projects, TheProject, IdPool[nextId + 1], kind, parentId, now),
               [NoOp EXCEPT !.op = "createChapter", !.id = IdPool[nextId + 1],
                            !.kind = kind, !.target = parentId],
               max)

AutosaveChapter(max) ==
    \E chapterId \in TargetIds, content \in Contents :
        /\ Ran(autosaveChapter(projects, TheProject, chapterId, content, now),
               [NoOp EXCEPT !.op = "autosaveChapter", !.id = chapterId, !.content = content],
               max)
        /\ UNCHANGED nextId

SaveChapter(max) ==
    \E chapterId \in TargetIds, content \in Contents :
        /\ Ran(saveChapter(projects, TheProject, chapterId, content, now),
               [NoOp EXCEPT !.op = "saveChapter", !.id = chapterId, !.content = content],
               max)
        /\ UNCHANGED nextId

DeleteChapter(max) ==
    \E chapterId \in TargetIds :
        /\ Ran(deleteChapter(projects, TheProject, chapterId, now),
               [NoOp EXCEPT !.op = "deleteChapter", !.id = chapterId],
               max)
        /\ UNCHANGED nextId

MoveChapter(max) ==
    \E chapterId \in TargetIds, targetParentId \in ParentIds :
        /\ Ran(moveChapter(projects, TheProject, chapterId, targetParentId, now),
               [NoOp EXCEPT !.op = "moveChapter", !.id = chapterId,
                            !.target = targetParentId],
               max)
        /\ UNCHANGED nextId

ReorderChapters(max) ==
    \E parentId \in ParentIds, ids \in OrderLists :
        /\ Ran(reorderChapters(projects, TheProject, parentId, ids, now),
               [NoOp EXCEPT !.op = "reorderChapters", !.target = parentId, !.order = ids],
               max)
        /\ UNCHANGED nextId

RenameProject(max) ==
    \E title \in Titles :
        /\ Ran(renameProject(projects, TheProject, title, now),
               [NoOp EXCEPT !.op = "renameProject"],
               max)
        /\ UNCHANGED nextId

UpdateProjectDescription(max) ==
    \E description \in Titles :
        /\ Ran(updateProjectDescription(projects, TheProject, description, now),
               [NoOp EXCEPT !.op = "updateProjectDescription"],
               max)
        /\ UNCHANGED nextId

DeleteProject(max) ==
    /\ Ran(deleteProject(projects, TheProject), [NoOp EXCEPT !.op = "deleteProject"], max)
    /\ UNCHANGED nextId

Next ==
    \/ Tick
    \/ CreateChapter(MaxOps)
    \/ AutosaveChapter(MaxOps)
    \/ SaveChapter(MaxOps)
    \/ DeleteChapter(MaxOps)
    \/ MoveChapter(MaxOps)
    \/ ReorderChapters(MaxOps)
    \/ RenameProject(MaxOps)
    \/ UpdateProjectDescription(MaxOps)
    \/ DeleteProject(MaxOps)

Spec == Init /\ [][Next]_vars

-----------------------------------------------------------------------------
(* Editing a project that has chapters: saves and autosaves only.           *)
(* It starts in a workspace createChapter has built.                        *)

\* createChapter run for each [kind, parentId] of `script`, ids in pool order
RECURSIVE Built(_, _, _)
Built(fs, script, k) ==
    IF k > Len(script) THEN fs
    ELSE Built(createChapter(fs, TheProject, IdPool[k], script[k][1], script[k][2], T0).fs,
               script, k + 1)

StartTrees ==
    { \* a group holding a chapter, and a chapter at the root
      <<<<"group", NoParent>>, <<"chapter", "n1">>, <<"chapter", NoParent>>>>,
      \* a chapter holding a chapter, and an empty group
      <<<<"chapter", NoParent>>, <<"chapter", "n1">>, <<"group", NoParent>>>> }

InitDraft ==
    /\ \E script \in StartTrees :
          /\ projects = Built(Fresh.fs, script, 1)
          /\ nextId = Len(script)
    /\ projectOrder = Fresh.order
    /\ now = T0
    /\ ops = 0
    /\ last = NoOp
    /\ calls = NoCalls

NextDraft ==
    \/ Tick
    \/ AutosaveChapter(MaxEdits)
    \/ SaveChapter(MaxEdits)

SpecDraft == InitDraft /\ [][NextDraft]_vars

-----------------------------------------------------------------------------
(* Successive commits to one leaf, each with content different from the     *)
(* one before: the k-th commit saves k letters. The clock moves on by one   *)
(* millisecond after a commit or stays where it is, so that up to MaxTies   *)
(* commits read the same Date.now() as the commit before them.              *)

TheLeaf == "n1"
Draft(k) == [i \in 1..k |-> "a"]

InitRetention ==
    /\ projects = Built(Fresh.fs, <<<<"chapter", NoParent>>>>, 1)
    /\ nextId = 1
    /\ projectOrder = Fresh.order
    /\ now = T0
    /\ ops = 0
    /\ last = NoOp
    /\ calls = NoCalls

CommitNext ==
    /\ ops - (now - T0) <= MaxTies
    /\ Ran(saveChapter(projects, TheProject, TheLeaf, Draft(ops + 1), now),
           [NoOp EXCEPT !.op = "saveChapter", !.id = TheLeaf, !.content = Draft(ops + 1)],
           MaxCommits)
    /\ UNCHANGED nextId

TickAfterCommit ==
    /\ last.op = "saveChapter"
    /\ last.at = now
    /\ now' = now + 1
    /\ UNCHANGED <<projects, projectOrder, nextId, ops, last, calls>>

NextRetention ==
    \/ TickAfterCommit
    \/ CommitNext

SpecRetention == InitRetention /\ [][NextRetention]_vars

-----------------------------------------------------------------------------
(* The snapshot timeline of a project that has chapters: saves, autosaves   *)
(* and snapshot deletions.                                                  *)

\* Timestamps a caller may name: any clock value so far, one not yet reached
Stamps == T0..(T0 + MaxTicks + 1)

DeleteSnapshot(max) ==
    \E chapterId \in TargetIds, timestamp \in Stamps :
        /\ Ran(deleteSnapshot(projects, TheProject, chapterId, timestamp),
               [NoOp EXCEPT !.op = "deleteSnapshot", !.id = chapterId, !.stamp = timestamp],
               max)
        /\ UNCHANGED nextId

NextTimeline ==
    \/ Tick
    \/ AutosaveChapter(MaxTimelineOps)
    \/ SaveChapter(MaxTimelineOps)
    \/ DeleteSnapshot(MaxTimelineOps)

\* Two chapters at the root; n1 committed twice (snapshots at T0 and T0 + 1),
\* n2 committed once (a snapshot at T0 + 1).
TimelineStart ==
    LET fs0 == Built(Fresh.fs, <<<<"chapter", NoParent>>, <<"chapter", NoParent>>>>, 1)
        fs1 == saveChapter(fs0, TheProject, "n1", <<"a">>, T0).fs
        fs2 == saveChapter(fs1, TheProject, "n1", << >>, T0 + 1).fs
    IN  saveChapter(fs2, TheProject, "n2", <<"a">>, T0 + 1).fs

InitTimeline ==
    /\ projects = TimelineStart
    /\ nextId = 2
    /\ projectOrder = Fresh.order
    /\ now = T0 + 1
    /\ ops = 0
    /\ last = NoOp
    /\ calls = NoCalls

SpecTimeline == InitTimeline /\ [][NextTimeline]_vars

-----------------------------------------------------------------------------
(* Reordering the siblings of a project that has chapters, with any list of  *)
(* ids a caller may send: partial, stale, with unknown ids, with repeats.   *)

ReorderStarts ==
    { \* a group and two chapters, all three at the root
      <<<<"group", NoParent>>, <<"chapter", NoParent>>, <<"chapter", NoParent>>>>,
      \* a group at the root holding two chapters
      <<<<"group", NoParent>>, <<"chapter", "n1">>, <<"chapter", "n1">>>> }

\* Every list of up to MaxOrderLen ids, issued or not, repeats allowed
AnyOrderLists == UNION {[1..n -> TargetIds] : n \in 0..MaxOrderLen}

InitReorder ==
    /\ \E script \in ReorderStarts :
          /\ projects = Built(Fresh.fs, script, 1)
          /\ nextId = Len(script)
    /\ projectOrder = Fresh.order
    /\ now = T0
    /\ ops = 0
    /\ last = NoOp
    /\ calls = NoCalls

ReorderAny ==
    \E parentId \in ParentIds, ids \in AnyOrderLists :
        /\ Ran(reorderChapters(projects, TheProject, parentId, ids, now),
               [NoOp EXCEPT !.op = "reorderChapters", !.target = parentId, !.order = ids],
               MaxReorders)
        /\ UNCHANGED nextId

NextReorder == ReorderAny

SpecReorder == InitReorder /\ [][NextReorder]_vars

-----------------------------------------------------------------------------
(* The workspace of projects: createProject, deleteProject, reorderProjects  *)
(* and listProjects, from an empty workspace.                               *)

ProjectPool == <<"p1", "p2", "p3", "p4">>
IssuedProjects == {ProjectPool[i] : i \in 1..nextId}   \* uuids createProject got
NamedProjects == IssuedProjects \cup {Ghost}           \* an id a caller may name

\* Every order readdir may return the entries in
Entries(fs) ==
    {e \in [1..Cardinality(DOMAIN fs) -> DOMAIN fs] :
        \A i, j \in 1..Cardinality(DOMAIN fs) : e[i] = e[j] => i = j}

ProjectOrderLists == UNION {[1..n -> NamedProjects] : n \in 0..MaxOrderLen}

InitProjects ==
    /\ projects = EmptyDir
    /\ projectOrder = << >>
    /\ now = T0
    /\ nextId = 0
    /\ ops = 0
    /\ last = NoOp
    /\ calls = NoCalls

\* Runs one workspace operation: the project directories, projects.json and
\* the ids of the projects it returned.
RanOnWorkspace(fs, order, listed, l) ==
    /\ ops < MaxProjectOps
    /\ ops' = ops + 1
    /\ projects' = fs
    /\ projectOrder' = order
    /\ last' = [l EXCEPT !.listed = listed, !.ret = "projects", !.at = now]
    /\ UNCHANGED <<now, calls>>

CreateProject ==
    /\ nextId < MaxProjects
    /\ nextId' = nextId + 1
    /\ LET id == ProjectPool[nextId + 1]
           r == createProject(projects, projectOrder, id, "t0", "d0", now)
       IN  RanOnWorkspace(r.fs, r.order, <<id>>,
                          [NoOp EXCEPT !.op = "createProject", !.id = id])

RemoveProject ==
    \E id \in NamedProjects :
        /\ RanOnWorkspace(deleteProject(projects, id).fs, projectOrder, << >>,
                          [NoOp EXCEPT !.op = "deleteProject", !.id = id])
        /\ UNCHANGED nextId

ReorderProjects ==
    \E nextOrder \in ProjectOrderLists, entries \in Entries(projects) :
        /\ LET r == reorderProjects(projects, projectOrder, nextOrder, entries)
           IN  RanOnWorkspace(projects, r.order, r.listed,
                              [NoOp EXCEPT !.op = "reorderProjects", !.order = nextOrder])
        /\ UNCHANGED nextId

ListProjects ==
    \E entries \in Entries(projects) :
        /\ LET r == listProjects(projects, projectOrder, entries)
           IN  RanOnWorkspace(projects, r.order, r.listed,
                              [NoOp EXCEPT !.op = "listProjects"])
        /\ UNCHANGED nextId

NextProjects ==
    \/ Tick
    \/ CreateProject
    \/ RemoveProject
    \/ ReorderProjects
    \/ ListProjects

SpecProjects == InitProjects /\ [][NextProjects]_vars

-----------------------------------------------------------------------------
(* What the claims speak of *)

Dir(fs) == fs[TheProject]
HasMeta(fs) == TheProject \in DOMAIN fs /\ fs[TheProject].meta # NoMeta
Tree(fs) == IF HasMeta(fs) THEN fs[TheProject].meta.chapters ELSE << >>
Node(fs, id) == findChapterMeta(Tree(fs), id)
IsNode(fs, id) == Node(fs, id) # Null
IsLeaf(fs, id) == IsNode(fs, id) /\ Node(fs, id).kind = "chapter"
Committed(fs, id) == readFileIfExists(Dir(fs).chapters, id)
Stepped == ops' # ops                       \* a store operation ran in this step
Returned == readProject(projects, TheProject)  \* the Project the last operation returned

\* Stripping trailing whitespace, as the specification words it
RECURSIVE Stripped(_)
Stripped(s) ==
    IF s # << >> /\ s[Len(s)] = " " THEN Stripped(SubSeq(s, 1, Len(s) - 1)) ELSE s

Snapshots(fs, id) ==
    IF TheProject \in DOMAIN fs /\ id \in DOMAIN Dir(fs).timeline
    THEN Dir(fs).timeline[id] ELSE EmptyDir

\* C1 (smart save): a commit whose content equals the committed content of a
\* leaf, after stripping trailing whitespace from both, changes nothing in the
\* workspace: not the committed file, not a snapshot, not the leaf's word count
\* or timestamp, not the document's updatedAt.
C1_SmartSaveNoOp ==
    [][(/\ Stepped
        /\ last'.op = "saveChapter"
        /\ IsLeaf(projects, last'.id)
        /\ Stripped(Committed(projects, last'.id)) = Stripped(last'.content))
       => projects' = projects]_vars

\* A second commit of content that differs from the committed content only by
\* a trailing space has run on a leaf that has a snapshot.
C1_Witness ==
    /\ last.op = "saveChapter"
    /\ last.ret = "project"
    /\ IsLeaf(projects, last.id)
    /\ Committed(projects, last.id) # last.content
    /\ Stripped(Committed(projects, last.id)) = Stripped(last.content)
    /\ Committed(projects, last.id) # << >>
    /\ Cardinality(DOMAIN Snapshots(projects, last.id)) = 1


\* The leaf `id` as the Project returned to the caller lists it
RECURSIVE FindLoaded(_, _)
FindLoaded(chapters, id) ==
    IF chapters = << >> THEN Null
    ELSE IF Head(chapters).id = id THEN Head(chapters)
    ELSE FindLoaded(Tail(chapters), id)

Loaded(fs, id) ==
    LET doc == readProject(fs, TheProject)
    IN  IF doc = Null THEN Null ELSE FindLoaded(doc.chapters, id)

C3_RetentionCap ==
    (last.op = "saveChapter" /\ last.id = TheLeaf) =>
        LET kept == Snapshots(projects, TheLeaf)
        IN  /\ Cardinality(DOMAIN kept) <= MAX_SNAPSHOTS
            /\ ops > MAX_SNAPSHOTS =>
                  /\ Cardinality(DOMAIN kept) = MAX_SNAPSHOTS
                  /\ {kept[f] : f \in DOMAIN kept} =
                         {Draft(k) : k \in (ops - MAX_SNAPSHOTS + 1)..ops}


\* C4 (draft precedence): for every leaf of the loaded document, with T1 the
\* modification time of its committed file and T2 that of its autosave file
\* (0 for an absent file), the draft is the autosave content and the pending
\* autosave timestamp is T2 if T2 > T1; otherwise (also when T2 = T1) the draft
\* is the committed content and the pending-autosave timestamp is cleared.
C4_DraftPrecedence ==
    LET doc == Returned
    IN  doc # Null =>
          \A i \in 1..Len(doc.chapters) :
              LET leaf == doc.chapters[i]
                  T1 == StatMtime(Dir(projects).chapters, leaf.id)
                  T2 == StatMtime(Dir(projects).autosave, leaf.id)
              IN  IF T2 > T1
                  THEN /\ leaf.draft = Dir(projects).autosave[leaf.id].content
                       /\ leaf.autosaveTimestamp = {T2}
                  ELSE /\ leaf.draft = Committed(projects, leaf.id)
                       /\ leaf.autosaveTimestamp = {}

\* A leaf whose autosave file and committed file have the same modification
\* time and different contents, and a leaf whose autosave file is newer.
C4_Witness ==
    /\ HasMeta(projects)
    /\ \E id \in DOMAIN Dir(projects).autosave :
          /\ IsLeaf(projects, id)
          /\ id \in DOMAIN Dir(projects).chapters
          /\ Dir(projects).autosave[id].mtime = Dir(projects).chapters[id].mtime
          /\ Dir(projects).autosave[id].content # Dir(projects).chapters[id].content
    /\ \E id \in DOMAIN Dir(projects).autosave :
          /\ IsLeaf(projects, id)
          /\ id \in DOMAIN Dir(projects).chapters
          /\ Dir(projects).autosave[id].mtime > Dir(projects).chapters[id].mtime


\* Every node of a forest, a node before its children
RECURSIVE AllNodes(_)
AllNodes(nodes) ==
    IF nodes = << >> THEN << >>
    ELSE <<Head(nodes)>> \o AllNodes(Head(nodes).children) \o AllNodes(Tail(nodes))

\* The forest without word counts and timestamps: ids, kinds, parents, order
RECURSIVE Shape(_)
Shape(nodes) ==
    [i \in 1..Len(nodes) |->
        [id |-> nodes[i].id, kind |-> nodes[i].kind, children |-> Shape(nodes[i].children)]]

\* C9 as stated (autosave frame): an autosave of an existing leaf changes no
\* snapshot and no committed file, writes only that leaf's autosave file, and
\* changes in the metadata record only that leaf's word count and timestamp.
C9_AutosaveOnlyLeafFields ==
    [][(Stepped /\ last'.op = "autosaveChapter" /\ IsLeaf(projects, last'.id))
       => /\ Dir(projects').timeline = Dir(projects).timeline
          /\ Dir(projects').chapters = Dir(projects).chapters
          /\ Dir(projects').autosave =
                 WriteFile(Dir(projects).autosave, last'.id, last'.content, now)
          /\ Dir(projects').meta =
                 [Dir(projects).meta EXCEPT !.chapters =
                     SetNode(@, last'.id,
                         [Node(projects, last'.id) EXCEPT !.words = Len(last'.content),
                                                          !.updatedAt = now])]]_vars

\* C9 as amended: an autosave changes no snapshot and no committed file of any
\* leaf and writes only the autosave file it names; in the metadata record it
\* keeps the tree (ids, kinds, parents, order), the title, the description and
\* createdAt, the word count of every other leaf and the timestamp of every
\* other node; it sets the leaf's word count and timestamp and ALSO the
\* document's updatedAt (Group word counts and stats.words are rewritten as
\* the load recomputed them).
C9_AutosaveFrame ==
    [][(Stepped /\ last'.op = "autosaveChapter")
       => LET id == last'.id
              before == Dir(projects).meta
              after == Dir(projects').meta
              old == AllNodes(before.chapters)
              new == AllNodes(after.chapters)
          IN  /\ Dir(projects').timeline = Dir(projects).timeline
              /\ Dir(projects').chapters = Dir(projects).chapters
              /\ Dir(projects').autosave =
                     WriteFile(Dir(projects).autosave, id, last'.content, now)
              /\ Shape(after.chapters) = Shape(before.chapters)
              /\ after.title = before.title
              /\ after.description = before.description
              /\ after.createdAt = before.createdAt
              /\ after.updatedAt = now
              /\ \A i \in 1..Len(old) :
                    old[i].id # id =>
                       /\ new[i].updatedAt = old[i].updatedAt
                       /\ old[i].kind = "chapter" => new[i].words = old[i].words
              /\ IsLeaf(projects, id) =>
                       /\ Node(projects', id).words = Len(last'.content)
                       /\ Node(projects', id).updatedAt = now]_vars

\* An autosave has run, after the clock advanced, on a leaf that has a
\* snapshot and a committed content, inside a tree with another leaf.
C9_Witness ==
    /\ last.op = "autosaveChapter"
    /\ IsLeaf(projects, last.id)
    /\ last.at > T0
    /\ Dir(projects).autosave[last.id] = [content |-> last.content, mtime |-> last.at]
    /\ Snapshots(projects, last.id) # EmptyDir
    /\ Committed(projects, last.id) # << >>
    /\ Dir(projects).meta.updatedAt = last.at

\* C10 (autosave recovery is loss-free): as long as the autosave file of a
\* leaf exists (an autosave completed and no content-changing commit or
\* deletion followed), the loaded document gives the autosaved content as the
\* leaf's draft, with its pending-autosave timestamp set.
C10_AutosaveLossFree ==
    HasMeta(projects) =>
        \A id \in DOMAIN Dir(projects).autosave :
            IsLeaf(projects, id) =>
                /\ Loaded(projects, id) # Null
                /\ Loaded(projects, id).draft = Dir(projects).autosave[id].content
                /\ Loaded(projects, id).autosaveTimestamp = {Dir(projects).autosave[id].mtime}


IdsOf(nodes) == {nodes[i].id : i \in 1..Len(nodes)}
SubtreeIds(node) == IdsOf(AllNodes(<<node>>))
WordsOf(nodes) == SumSeq([i \in 1..Len(nodes) |-> nodes[i].words])

\* C5 (move rejects cycles): moving a node under itself or under one of its
\* descendants leaves the persisted forest as it was: the same nodes, each
\* with the same parent, siblings in the same order.
C5_MoveRejectsCycles ==
    [][(/\ Stepped
        /\ last'.op = "moveChapter"
        /\ IsNode(projects, last'.id)
        /\ last'.target \in SubtreeIds(Node(projects, last'.id)))
       => Shape(Tree(projects')) = Shape(Tree(projects))]_vars

\* C6 (aggregate invariant): in every Project an operation returns, each
\* group's word count is the sum of the word counts of the chapters in its
\* subtree, and stats.words is the sum over the flattened chapter list.
C6_AggregateInvariant ==
    (last.ret = "project" /\ Returned # Null) =>
        LET doc == Returned
            all == AllNodes(doc.structure)
        IN  /\ \A i \in 1..Len(all) :
                  all[i].kind = "group" =>
                      all[i].words = WordsOf(flattenChapterTree(all[i].children))
            /\ doc.words = WordsOf(doc.chapters)

\* C7 (cascade delete): after deleteChapter on a group, no chapter that was
\* in the group's subtree has a committed file, an autosave file, a snapshot
\* directory or a listed snapshot, and none of the removed nodes is in the
\* returned tree or in the flattened chapter list.
C7_CascadeDelete ==
    [][(/\ Stepped
        /\ last'.op = "deleteChapter"
        /\ IsNode(projects, last'.id)
        /\ Node(projects, last'.id).kind = "group")
       => LET group == Node(projects, last'.id)
              leaves == IdsOf(flattenChapterTree(group.children))
              doc == readProject(projects', TheProject)
          IN  /\ last'.ret = "project"
              /\ \A leafId \in leaves :
                    /\ leafId \notin DOMAIN Dir(projects').chapters
                    /\ leafId \notin DOMAIN Dir(projects').autosave
                    /\ leafId \notin DOMAIN Dir(projects').timeline
                    /\ listSnapshots(projects', TheProject, leafId) = << >>
              /\ SubtreeIds(group) \cap IdsOf(AllNodes(doc.structure)) = {}
              /\ SubtreeIds(group) \cap IdsOf(doc.chapters) = {}]_vars

\* The document, the node or the parent an operation names does not resolve
Unresolved(fs, l) ==
    \/ ~HasMeta(fs)
    \/ l.op \in {"saveChapter", "deleteChapter", "moveChapter"} /\ ~IsNode(fs, l.id)
    \/ /\ l.op \in {"createChapter", "moveChapter", "reorderChapters"}
       /\ l.target # NoParent
       /\ ~IsNode(fs, l.target)

\* C8 (NotFound): createChapter, saveChapter, deleteChapter, moveChapter,
\* reorderChapters, renameProject and updateProjectDescription return null
\* and leave the workspace unchanged whenever the document, the node or the
\* parent they name does not resolve.
C8_NotFoundReturnsNull ==
    [][(/\ Stepped
        /\ last'.op \in {"createChapter", "saveChapter", "deleteChapter", "moveChapter",
                         "reorderChapters", "renameProject", "updateProjectDescription"}
        /\ Unresolved(projects, last'))
       => (last'.ret = "null" /\ projects' = projects)]_vars


\* C11 (snapshots are independent of the live document): deleteSnapshot, for
\* any chapter id and any timestamp (one that names a snapshot or not), leaves
\* every committed file, every autosave file, the metadata record and the
\* snapshots of every other leaf as they were, removes at most the snapshot it
\* names, and the Project loaded afterwards is the one loaded before.
C11_SnapshotsIndependent ==
    [][(Stepped /\ last'.op = "deleteSnapshot")
       => /\ Dir(projects').chapters = Dir(projects).chapters
          /\ Dir(projects').autosave = Dir(projects).autosave
          /\ Dir(projects').meta = Dir(projects).meta
          /\ DOMAIN Dir(projects').timeline = DOMAIN Dir(projects).timeline
          /\ \A id \in DOMAIN Dir(projects).timeline :
                Snapshots(projects', id) =
                    IF id = last'.id
                    THEN Drop(Snapshots(projects, id), last'.stamp)
                    ELSE Snapshots(projects, id)
          /\ readProject(projects', TheProject) = readProject(projects, TheProject)]_vars

\* The last of the snapshots of a leaf has been deleted; another leaf keeps
\* its snapshot and its committed content.
C11_Witness ==
    /\ last.op = "deleteSnapshot"
    /\ IsLeaf(projects, last.id)
    /\ last.id \in DOMAIN Dir(projects).timeline
    /\ Snapshots(projects, last.id) = EmptyDir
    /\ ops = 2
    /\ \E other \in DOMAIN Dir(projects).timeline :
          /\ other # last.id
          /\ Snapshots(projects, other) # EmptyDir
          /\ Committed(projects, other) # << >>


\* How many nodes of the forest carry the id
Occurrences(nodes, id) ==
    Cardinality({i \in 1..Len(AllNodes(nodes)) : AllNodes(nodes)[i].id = id})

\* The node `id` is a child of `parentId` (a root when parentId is NoParent)
ChildOf(fs, id, parentId) ==
    IF parentId = NoParent THEN id \in IdsOf(Tree(fs))
    ELSE IsNode(fs, parentId) /\ id \in IdsOf(Node(fs, parentId).children)

\* C12 (node identity): after every operation no node id appears more than
\* once in the forest; moveChapter and reorderChapters keep every node, with
\* its id, its kind, the word count of every leaf and the set of nodes below
\* it when it is not on the path of the move; and a node moved to the root or
\* under an existing node appears exactly once afterwards, under that parent,
\* with its subtree as it was.
C12_NodeIdentity ==
    [][(Stepped /\ HasMeta(projects) /\ HasMeta(projects'))
       => LET old == AllNodes(Tree(projects))
              id == last'.id
              target == last'.target
          IN  /\ \A x \in IdsOf(AllNodes(Tree(projects'))) :
                    Occurrences(Tree(projects'), x) = 1
              /\ last'.op \in {"moveChapter", "reorderChapters"} =>
                    \A i \in 1..Len(old) :
                        /\ IsNode(projects', old[i].id)
                        /\ Node(projects', old[i].id).kind = old[i].kind
                        /\ old[i].kind = "chapter" =>
                               Node(projects', old[i].id).words = old[i].words
                        /\ last'.op = "reorderChapters" =>
                               SubtreeIds(Node(projects', old[i].id)) = SubtreeIds(old[i])
              /\ (/\ last'.op = "moveChapter"
                  /\ IsNode(projects, id)
                  /\ target = NoParent \/ IsNode(projects, target)) =>
                    /\ Occurrences(Tree(projects'), id) = 1
                    /\ ChildOf(projects', id, target)
                    /\ Shape(<<Node(projects', id)>>) = Shape(<<Node(projects, id)>>)]_vars


\* The children of `parentId` (the roots when parentId is NoParent)
ChildrenOf(fs, parentId) ==
    IF parentId = NoParent THEN Tree(fs) ELSE Node(fs, parentId).children

ChildIds(fs, parentId) ==
    [i \in 1..Len(ChildrenOf(fs, parentId)) |-> ChildrenOf(fs, parentId)[i].id]

\* Where a child stands among its siblings; where an id is first mentioned
Position(children, id) == CHOOSE i \in 1..Len(children) : children[i].id = id
FirstMention(order, id) ==
    CHOOSE i \in 1..Len(order) : order[i] = id /\ \A j \in 1..(i - 1) : order[j] # id

\* C13 (reorder siblings): for the root or an existing parent and any list of
\* ids (partial, stale, with unknown ids or repeats), the new child sequence
\* holds exactly the previous children, each once and unchanged: the children
\* named in the list first, in the order of their first mention, then the
\* children not named, in their previous relative order; the children of
\* every other node keep their order.
C13_ReorderSiblings ==
    [][(/\ Stepped
        /\ last'.op = "reorderChapters"
        /\ HasMeta(projects)
        /\ last'.target = NoParent \/ IsNode(projects, last'.target))
       => LET before == ChildrenOf(projects, last'.target)
              after == ChildrenOf(projects', last'.target)
              order == last'.order
              named == {order[i] : i \in 1..Len(order)} \cap IdsOf(before)
          IN  /\ last'.ret = "project"
              /\ Len(after) = Len(before)
              /\ \A i \in 1..Len(before) :
                    \E j \in 1..Len(after) : after[j] = before[i]
              /\ IdsOf(after) = IdsOf(before)
              /\ \A a \in IdsOf(before), b \in IdsOf(before) :
                    LET earlier == Position(after, a) < Position(after, b)
                    IN  /\ (a \in named /\ b \in named) =>
                              (earlier <=> FirstMention(order, a) < FirstMention(order, b))
                        /\ (a \in named /\ b \notin named) => earlier
                        /\ (a \notin named /\ b \notin named) =>
                              (earlier <=> Position(before, a) < Position(before, b))
              /\ \A x \in IdsOf(AllNodes(Tree(projects))) \cup {NoParent} :
                    x # last'.target =>
                        ChildIds(projects', x) = ChildIds(projects, x)]_vars

\* A list that repeats the second child of a group and names no other child
\* has been applied: that child now stands first, the other after it.
C13_Witness ==
    /\ last.op = "reorderChapters"
    /\ last.ret = "project"
    /\ last.target = "n1"
    /\ last.order = <<"n3", "n3">>
    /\ ChildIds(projects, "n1") = <<"n3", "n2">>

\* C19 (reorder idempotence): for the root or an existing parent, a reorder
\* called with exactly the current order of the children leaves the child
\* sequence (and the whole forest) as it was, and for any list of ids a
\* caller may send, applying the same reorder a second time gives the
\* forest the first application gave.
C19_ReorderIdempotent ==
    /\ [][(/\ Stepped
           /\ last'.op = "reorderChapters"
           /\ HasMeta(projects)
           /\ last'.target = NoParent \/ IsNode(projects, last'.target)
           /\ last'.order = ChildIds(projects, last'.target))
          => Tree(projects') = Tree(projects)]_vars
    /\ [](\A parentId \in ParentIds, ids \in AnyOrderLists :
            LET once == reorderChapterChildren(Tree(projects), parentId, ids).nodes
                twice == reorderChapterChildren(once, parentId, ids).nodes
            IN  twice = once)

\* A reorder of a group with its two children in their current order has
\* run, after which they stand as the list says.
C19_Witness ==
    /\ last.op = "reorderChapters"
    /\ last.ret = "project"
    /\ last.target = "n1"
    /\ last.order = ChildIds(projects, "n1")
    /\ last.order = <<"n2", "n3">>


\* C16 (snapshots are immutable): as long as the snapshot with timestamp t of
\* a leaf exists, readSnapshot returns the same content for it; no operation,
\* and in particular no later commit, rewrites an existing snapshot.
C16_SnapshotsImmutable ==
    [][\A id \in DOMAIN Dir(projects).timeline :
          \A t \in DOMAIN Snapshots(projects, id) \cap DOMAIN Snapshots(projects', id) :
              readSnapshot(projects', TheProject, id, t) =
                  readSnapshot(projects, TheProject, id, t)]_vars

\* The ids that have a committed file, an autosave file or a snapshot directory
StoredIds(fs) ==
    DOMAIN Dir(fs).chapters \cup DOMAIN Dir(fs).autosave \cup DOMAIN Dir(fs).timeline

\* C17 (content belongs to leaves only): every committed content file, every
\* autosave file and every snapshot directory belongs to a node of kind
\* 'chapter' of the document; so a commit or an autosave addressed at a group
\* leaves no such file behind.
C17_ContentOnLeavesOnly ==
    HasMeta(projects) => \A id \in StoredIds(projects) : IsLeaf(projects, id)

\* C20 (a commit returns what was saved): when saveChapter on a leaf returns
\* a Project, the leaf's entry in it has a draft equal to the submitted
\* content up to trailing whitespace and no pending-autosave timestamp, on
\* the no-op path as on the writing path.
C20_CommitReturnsSaved ==
    [][(/\ Stepped
        /\ last'.op = "saveChapter"
        /\ last'.ret = "project"
        /\ IsLeaf(projects, last'.id))
       => LET leaf == Loaded(projects', last'.id)
          IN  /\ leaf # Null
              /\ Stripped(leaf.draft) = Stripped(last'.content)
              /\ leaf.autosaveTimestamp = {}]_vars


\* The projects a load can read; how often an id stands in a list
ExistingProjects(fs) == {id \in DOMAIN fs : fs[id].meta # NoMeta}
Mentions(list, id) == Cardinality({i \in 1..Len(list) : list[i] = id})
Members(list) == {list[i] : i \in 1..Len(list)}

\* C14 (reorder documents): for any list a caller sends (omitting ids, naming
\* ids of projects that do not exist, repeating an id), the order persisted
\* and returned by reorderProjects holds every existing project exactly once
\* and nothing else: the listed existing ids first, in list order, then the
\* omitted ones in their prior order.
C14_ReorderProjects ==
    [][(Stepped /\ last'.op = "reorderProjects")
       => LET existing == ExistingProjects(projects)
              order == projectOrder'
              named == Members(last'.order) \cap existing
          IN  /\ last'.listed = order
              /\ Members(order) = existing
              /\ \A id \in existing : Mentions(order, id) = 1
              /\ \A a \in existing, b \in existing :
                    LET earlier == FirstMention(order, a) < FirstMention(order, b)
                    IN  /\ (a \in named /\ b \in named) =>
                              (earlier <=>
                                  FirstMention(last'.order, a) < FirstMention(last'.order, b))
                        /\ (a \in named /\ b \notin named) => earlier
                        /\ (a \notin named /\ b \notin named) =>
                              (earlier <=>
                                  FirstMention(projectOrder, a) < FirstMention(projectOrder, b))]_vars

\* C15 (list documents self-heals the order): after any create, delete,
\* reorder and list calls, listProjects returns every existing readable
\* project exactly once and no deleted one; projects.json then holds the
\* returned order; the ids that were in projects.json keep their relative
\* order, and the ids that were not follow them, sorted by creation time.
C15_ListSelfHeals ==
    [][(Stepped /\ last'.op = "listProjects")
       => LET existing == ExistingProjects(projects)
              listed == last'.listed
              known == Members(projectOrder) \cap existing
          IN  /\ Members(listed) = existing
              /\ \A id \in existing : Mentions(listed, id) = 1
              /\ projectOrder' = listed
              /\ \A a \in existing, b \in existing :
                    LET earlier == FirstMention(listed, a) < FirstMention(listed, b)
                    IN  /\ (a \in known /\ b \in known) =>
                              (earlier <=>
                                  FirstMention(projectOrder, a) < FirstMention(projectOrder, b))
                        /\ (a \in known /\ b \notin known) => earlier
                        /\ (a \notin known /\ b \notin known /\ earlier) =>
                              projects[a].meta.createdAt <= projects[b].meta.createdAt]_vars


-----------------------------------------------------------------------------
(* Two projects, each with its own caller.  A call runs step by step: a     *)
(* step is the code up to and including one awaited file operation, and the *)
(* steps of the calls on the two projects interleave in any order, with the *)
(* clock advancing in between.  Beside `projects`, every step is run on the *)
(* workspace in which only the calls on its own project have run.           *)

Docs == {"p1", "p2"}
OtherDoc(p) == IF p = "p1" THEN "p2" ELSE "p1"

\* One directory for every project
SharedProjectDir(projectId) == "p1"

\* path.join(PROJECTS_ROOT, projectId): `projects` is keyed by projectId
getProjectDir(projectId) == projectId

\* Each project has a group that holds a chapter committed once, at T0
DocGroup(p) == IF p = "p1" THEN "n1" ELSE "n3"
DocLeaf(p) == IF p = "p1" THEN "n2" ELSE "n4"

TwoDocsStart ==
    LET a == createProject(EmptyDir, << >>, "p1", "t0", "d0", T0)
        b == createProject(a.fs, a.order, "p2", "t0", "d0", T0)
        f1 == createChapter(b.fs, "p1", "n1", "group", NoParent, T0).fs
        f2 == createChapter(f1, "p1", "n2", "chapter", "n1", T0).fs
        f3 == createChapter(f2, "p2", "n3", "group", NoParent, T0).fs
        f4 == createChapter(f3, "p2", "n4", "chapter", "n3", T0).fs
        f5 == saveChapter(f4, "p1", "n2", <<"a">>, T0).fs
    IN  [fs |-> saveChapter(f5, "p2", "n4", <<"a">>, T0).fs, order |-> b.order]

\* A call: its arguments, the step it is at (pc), and what it holds in memory
NoCall ==
    [pc |-> "idle", op |-> "none", id |-> NoParent, content |-> << >>,
     target |-> NoParent, kind |-> DEFAULT_CHAPTER_KIND, order |-> << >>,
     title |-> "t0", stamp |-> 0, nodeAt |-> 0, meta |-> NoMeta, leaves |-> << >>,
     \* what the claims about races need to know of the call's history
     early |-> FALSE, wrote |-> 0, late |-> FALSE]

\* The calls a caller of project p makes: one of each operation, on its own
\* nodes
CallsOn(p) ==
    LET leaf == DocLeaf(p)
        group == DocGroup(p)
    IN  {[NoCall EXCEPT !.op = "createChapter", !.id = IdPool[nextId + 1],
                        !.kind = "chapter", !.target = group],
         [NoCall EXCEPT !.op = "saveChapter", !.id = leaf],
         [NoCall EXCEPT !.op = "autosaveChapter", !.id = leaf, !.content = <<"a", "a">>],
         [NoCall EXCEPT !.op = "deleteChapter", !.id = group],
         [NoCall EXCEPT !.op = "moveChapter", !.id = leaf, !.target = NoParent],
         [NoCall EXCEPT !.op = "reorderChapters", !.target = group, !.order = <<leaf>>],
         [NoCall EXCEPT !.op = "renameProject", !.title = "t1"],
         [NoCall EXCEPT !.op = "deleteSnapshot", !.id = leaf, !.stamp = T0]}

FirstStep(op) ==
    IF op = "autosaveChapter" THEN "writeAutosave"
    ELSE IF op = "deleteSnapshot" THEN "removeSnapshot"
    ELSE "loadMeta"

\* What a step leaves: the workspace and the call
After(fs, c) == [fs |-> fs, c |-> c]

\* await loadProjectMeta(projectId), and the early returns that follow it
loadMetaStep(fs, p, c) ==
    LET meta == loadProjectMeta(fs, getProjectDir(p))
        next ==
            IF meta = NoMeta THEN "idle"
            ELSE IF c.op = "createChapter"
                 THEN (IF c.kind = "chapter" THEN "writeChapter" ELSE "writeMeta")
            ELSE IF c.op = "saveChapter"
                 THEN (IF findChapterMeta(meta.chapters, c.id) = Null
                       THEN "idle" ELSE "readCanonical")
            ELSE IF c.op \in {"deleteChapter", "moveChapter"}
                 THEN (IF removeChapterMeta(meta.chapters, c.id).removed = Null
                       THEN "idle" ELSE "writeMeta")
            ELSE "writeMeta"
    IN  After(fs, [c EXCEPT !.meta = meta, !.pc = next])

\* saveChapter: await readFileIfExists(canonicalPath), then the comparison
readCanonicalStep(fs, p, c) ==
    LET existing == readFileIfExists(fs[getProjectDir(p)].chapters, c.id)
    IN  After(fs, [c EXCEPT !.pc = IF SameAfterNormalize(existing, c.content)
                                   THEN "idle" ELSE "writeMeta"])

\* The meta a call has built in memory when it calls writeProjectMeta at t
MetaToWrite(c, t) ==
    LET meta == c.meta
        found == findChapterMeta(meta.chapters, c.id)
        removed == removeChapterMeta(meta.chapters, c.id)
        chapters ==
            IF c.op = "createChapter"
            THEN insertChapterMeta(meta.chapters, c.target,
                     NewNode(c.id, c.kind,
                             IF c.kind = "chapter" THEN c.nodeAt ELSE t)).nodes
            ELSE IF c.op = "saveChapter"
            THEN SetNode(meta.chapters, c.id,
                     [found EXCEPT !.words = CodePoints(c.content), !.updatedAt = t])
            ELSE IF c.op = "autosaveChapter"
            THEN (IF found = Null THEN meta.chapters
                  ELSE SetNode(meta.chapters, c.id,
                           refreshAggregateWords(
                               [found EXCEPT !.updatedAt = t,
                                             !.words = CodePoints(c.content)])))
            ELSE IF c.op = "deleteChapter" THEN removed.nodes
            ELSE IF c.op = "moveChapter"
            THEN insertChapterMeta(removed.nodes, c.target, removed.removed).nodes
            ELSE IF c.op = "reorderChapters"
            THEN reorderChapterChildren(meta.chapters, c.target, c.order).nodes
            ELSE meta.chapters
        built == [meta EXCEPT !.chapters = chapters,
                              !.title = IF c.op = "renameProject" THEN c.title ELSE @]
    IN  touchProject(IF c.op \in {"autosaveChapter", "renameProject"}
                     THEN built ELSE refreshProjectAggregates(built), t)

\* A write that applies the call's change to project.json as it is on disk
\* at the time of the write, not to the record the call loaded
MergedMetaStep(fs, p, c, t) ==
    LET onDisk == loadProjectMeta(fs, getProjectDir(p))
        applies == \/ c.op \notin {"saveChapter", "deleteChapter", "moveChapter"}
                   \/ findChapterMeta(onDisk.chapters, c.id) # Null
        merged == IF applies THEN MetaToWrite([c EXCEPT !.meta = onDisk], t)
                  ELSE touchProject(onDisk, t)
        leafChapterIds ==
            IF c.op = "deleteChapter"
            THEN collectChapterIds(removeChapterMeta(c.meta.chapters, c.id).removed)
            ELSE << >>
    IN  After(writeProjectMeta(fs, getProjectDir(p), merged),
              [c EXCEPT !.leaves = leafChapterIds,
                        !.pc = IF c.op = "saveChapter" THEN "writeChapter"
                               ELSE IF leafChapterIds # << >> THEN "removeChapterFile"
                               ELSE "idle"])

\* await writeProjectMeta(projectId, meta)
writeMetaStep(fs, p, c, t) ==
    LET fs1 == writeProjectMeta(fs, getProjectDir(p), MetaToWrite(c, t))
        leafChapterIds ==
            IF c.op = "deleteChapter"
            THEN collectChapterIds(removeChapterMeta(c.meta.chapters, c.id).removed)
            ELSE << >>
    IN  After(fs1,
              [c EXCEPT !.leaves = leafChapterIds,
                        !.pc = IF c.op = "saveChapter" THEN "writeChapter"
                               ELSE IF leafChapterIds # << >> THEN "removeChapterFile"
                               ELSE "idle"])

\* await fs.writeFile(getChapterFilePath(projectId, chapterId), ...): '' in
\* createChapter, which has read the clock for the node before; the content
\* in saveChapter
writeChapterStep(fs, p, c, t) ==
    LET creating == c.op = "createChapter"
    IN  After([fs EXCEPT ![getProjectDir(p)].chapters =
                   WriteFile(@, c.id, IF creating THEN << >> ELSE c.content, t)],
              [c EXCEPT !.nodeAt = t,
                        !.pc = IF creating THEN "writeMeta" ELSE "writeSnapshot"])

\* recordSnapshot: ensureDir(dir) and the write of `${Date.now()}.snapshot`
writeSnapshotStep(fs, p, c, t) ==
    LET tl == fs[getProjectDir(p)].timeline
        dir == IF c.id \in DOMAIN tl THEN tl[c.id] ELSE EmptyDir
    IN  After([fs EXCEPT ![getProjectDir(p)].timeline = Put(tl, c.id, Put(dir, t, c.content))],
              [c EXCEPT !.pc = "pruneSnapshots"])

\* recordSnapshot: readdir(dir) and the removal of the oldest files
pruneSnapshotsStep(fs, p, c) ==
    After([fs EXCEPT ![getProjectDir(p)].timeline =
               IF c.id \in DOMAIN @ THEN [@ EXCEPT ![c.id] = EvictOldest(@)] ELSE @],
          [c EXCEPT !.pc = "removeAutosave"])

\* deleteChapter: await removeFileIfExists(getChapterFilePath(projectId, leafId))
removeChapterFileStep(fs, p, c) ==
    After([fs EXCEPT ![getProjectDir(p)].chapters = removeFileIfExists(@, Head(c.leaves))],
          [c EXCEPT !.pc = "removeAutosave"])

\* await removeFileIfExists(getAutosavePath(...)): of the chapter saved, or
\* of the leaf deleteChapter is at
removeAutosaveStep(fs, p, c) ==
    LET saving == c.op = "saveChapter"
    IN  After([fs EXCEPT ![getProjectDir(p)].autosave =
                   removeFileIfExists(@, IF saving THEN c.id ELSE Head(c.leaves))],
              [c EXCEPT !.pc = IF saving THEN "idle" ELSE "removeTimeline"])

\* deleteChapter: await fs.rm(getSnapshotDir(projectId, leafId)), then the
\* next leaf
removeTimelineStep(fs, p, c) ==
    After([fs EXCEPT ![getProjectDir(p)].timeline = Drop(@, Head(c.leaves))],
          [c EXCEPT !.leaves = Tail(@),
                    !.pc = IF Tail(c.leaves) = << >> THEN "idle" ELSE "removeChapterFile"])

\* autosaveChapter: ensureDir(.../autosave) and the write of the draft
writeAutosaveStep(fs, p, c, t) ==
    After([ensureDir(fs, getProjectDir(p)) EXCEPT
               ![getProjectDir(p)] = WriteAutosaveFile(@, c.id, c.content, t)],
          [c EXCEPT !.pc = "loadMeta"])

\* deleteSnapshot: await fs.rm(target, { force: true })
removeSnapshotStep(fs, p, c) ==
    After(deleteSnapshot(fs, getProjectDir(p), c.id, c.stamp).fs, [c EXCEPT !.pc = "idle"])

\* The step a call is at, run on workspace fs when the clock reads t
StepOf(fs, p, c, t) ==
    CASE c.pc = "loadMeta" -> loadMetaStep(fs, p, c)
      [] c.pc = "readCanonical" -> readCanonicalStep(fs, p, c)
      [] c.pc = "writeMeta" -> writeMetaStep(fs, p, c, t)
      [] c.pc = "writeChapter" -> writeChapterStep(fs, p, c, t)
      [] c.pc = "writeSnapshot" -> writeSnapshotStep(fs, p, c, t)
      [] c.pc = "pruneSnapshots" -> pruneSnapshotsStep(fs, p, c)
      [] c.pc = "removeChapterFile" -> removeChapterFileStep(fs, p, c)
      [] c.pc = "removeAutosave" -> removeAutosaveStep(fs, p, c)
      [] c.pc = "removeTimeline" -> removeTimelineStep(fs, p, c)
      [] c.pc = "writeAutosave" -> writeAutosaveStep(fs, p, c, t)
      [] c.pc = "removeSnapshot" -> removeSnapshotStep(fs, p, c)
      [] OTHER -> After(fs, c)

\* The workspace in which only the calls on p have run, dir being what they
\* made of p's directory
AloneWorkspace(p, dir) == [TwoDocsStart.fs EXCEPT ![p] = dir]

InitTwoDocs ==
    /\ projects = TwoDocsStart.fs
    /\ projectOrder = TwoDocsStart.order
    /\ now = T0
    /\ nextId = 4
    /\ ops = 0
    /\ last = NoOp
    /\ calls = [p \in Docs |->
                   [here |-> NoCall, alone |-> NoCall, dir |-> TwoDocsStart.fs[p]]]

\* A caller of an idle project starts a call
Call ==
    /\ ops < MaxCalls
    /\ ops' = ops + 1
    /\ \E p \in Docs : \E c \in CallsOn(p) :
          LET started == [c EXCEPT !.pc = FirstStep(c.op)]
          IN  /\ calls[p].here.pc = "idle"
              /\ c.op = "createChapter" => nextId < Len(IdPool)
              /\ calls' = [calls EXCEPT ![p].here = started, ![p].alone = started]
              /\ nextId' = IF c.op = "createChapter" THEN nextId + 1 ELSE nextId
    /\ UNCHANGED <<projects, projectOrder, now, last>>

\* The call on p takes its step in `projects`, and its step in the
\* workspace where it runs alone, at the same reading of the clock
Takes(p) ==
    LET a == calls[p]
        r == StepOf(projects, p, a.here, now)
        s == StepOf(AloneWorkspace(p, a.dir), p, a.alone, now)
    IN  /\ projects' = r.fs
        /\ calls' = [calls EXCEPT ![p] = [here |-> r.c, alone |-> s.c, dir |-> s.fs[p]]]
        /\ UNCHANGED <<projectOrder, now, nextId, ops, last>>

LoadMeta == \E p \in Docs : calls[p].here.pc = "loadMeta" /\ Takes(p)
ReadCanonical == \E p \in Docs : calls[p].here.pc = "readCanonical" /\ Takes(p)
WriteMeta == \E p \in Docs : calls[p].here.pc = "writeMeta" /\ Takes(p)
WriteChapter == \E p \in Docs : calls[p].here.pc = "writeChapter" /\ Takes(p)
WriteSnapshot == \E p \in Docs : calls[p].here.pc = "writeSnapshot" /\ Takes(p)
PruneSnapshots == \E p \in Docs : calls[p].here.pc = "pruneSnapshots" /\ Takes(p)
RemoveChapterFile == \E p \in Docs : calls[p].here.pc = "removeChapterFile" /\ Takes(p)
RemoveAutosave == \E p \in Docs : calls[p].here.pc = "removeAutosave" /\ Takes(p)
RemoveTimeline == \E p \in Docs : calls[p].here.pc = "removeTimeline" /\ Takes(p)
WriteAutosave == \E p \in Docs : calls[p].here.pc = "writeAutosave" /\ Takes(p)
RemoveSnapshot == \E p \in Docs : calls[p].here.pc = "removeSnapshot" /\ Takes(p)

\* The clock advances, between two steps of a call as well
Advance ==
    /\ now < T0 + MaxAdvances
    /\ now' = now + 1
    /\ UNCHANGED <<projects, projectOrder, nextId, ops, last, calls>>

NextTwoDocs ==
    \/ Advance
    \/ Call
    \/ LoadMeta
    \/ ReadCanonical
    \/ WriteMeta
    \/ WriteChapter
    \/ WriteSnapshot
    \/ PruneSnapshots
    \/ RemoveChapterFile
    \/ RemoveAutosave
    \/ RemoveTimeline
    \/ WriteAutosave
    \/ RemoveSnapshot

SpecTwoDocs == InitTwoDocs /\ [][NextTwoDocs]_vars

\* C18 (operations on different projects are independent): however the steps
\* of the calls on one project interleave with the steps of the calls on the
\* other, once a project's calls have returned its directory (project.json,
\* chapter files, autosave drafts, snapshots) is what the same calls make of
\* it when they run alone, with the same readings of the clock.
C18_ProjectsIndependent ==
    \A p \in Docs :
        calls[p].here.pc = "idle" => projects[p] = calls[p].dir

\* Both calls were in flight when the clock advanced: the commit on p1 wrote
\* project.json before and the chapter file after, the autosave on p2 wrote
\* the draft before and project.json after; both have returned.
C18_Witness ==
    /\ calls["p1"].here.op = "saveChapter" /\ calls["p1"].here.pc = "idle"
    /\ calls["p2"].here.op = "autosaveChapter" /\ calls["p2"].here.pc = "idle"
    /\ projects["p1"].meta.updatedAt = T0
    /\ projects["p1"].chapters["n2"] = [content |-> << >>, mtime |-> T0 + 1]
    /\ T0 + 1 \in DOMAIN projects["p1"].timeline["n2"]
    /\ "n4" \in DOMAIN projects["p2"].autosave
    /\ projects["p2"].autosave["n4"] = [content |-> <<"a", "a">>, mtime |-> T0]
    /\ projects["p2"].meta.updatedAt = T0 + 1

\* C21 (no node is lost): every operation other than deleteChapter and
\* deleteProject leaves in the persisted forest every node id that was in it;
\* createChapter adds at most the new id, and every other operation adds none.
C21_NoNodeLost ==
    [][(Stepped /\ last'.op \notin {"deleteChapter", "deleteProject"})
       => LET before == IdsOf(AllNodes(Tree(projects)))
              after == IdsOf(AllNodes(Tree(projects')))
          IN  /\ before \subseteq after
              /\ after \subseteq before \cup (IF last'.op = "createChapter"
                                              THEN {last'.id} ELSE {})]_vars

\* C22 (the persisted record keeps the aggregate invariant): in project.json
\* as every completed operation leaves it, each group's word count is the sum
\* of the word counts of the chapters below it, and the project's word count
\* is the sum over all chapters.
C22_PersistedAggregates ==
    HasMeta(projects) =>
        LET meta == Dir(projects).meta
            all == AllNodes(meta.chapters)
        IN  /\ \A i \in 1..Len(all) :
                  all[i].kind = "group" =>
                      all[i].words = WordsOf(flattenChapterTree(all[i].children))
            /\ meta.words = WordsOf(flattenChapterTree(meta.chapters))

-----------------------------------------------------------------------------
(* Two callers of the same project: the store has no lock, so the steps of  *)
(* their calls interleave in any order.  Of a call's history the model      *)
(* keeps: whether it loaded project.json before the other caller's call     *)
(* wrote it (early), whether it wrote project.json first or second (wrote), *)
(* and, for a commit, whether a draft of its chapter was written while it   *)
(* was in flight (late).                                                    *)

Callers == {"c1", "c2"}
OtherCaller(k) == IF k = "c1" THEN "c2" ELSE "c1"

\* The calls made on project p1 of TwoDocsStart: group n1 holds chapter n2
RaceCalls ==
    {[NoCall EXCEPT !.op = "createChapter", !.id = IdPool[nextId + 1], !.kind = "chapter"],
     [NoCall EXCEPT !.op = "saveChapter", !.id = "n2"],
     [NoCall EXCEPT !.op = "autosaveChapter", !.id = "n2", !.content = <<"a", "a">>],
     [NoCall EXCEPT !.op = "moveChapter", !.id = "n2"],
     [NoCall EXCEPT !.op = "deleteChapter", !.id = "n1"]}

InitRace ==
    /\ projects = TwoDocsStart.fs
    /\ projectOrder = TwoDocsStart.order
    /\ now = T0
    /\ nextId = 4
    /\ ops = 0
    /\ last = NoOp
    /\ calls = [k \in Callers |-> NoCall]

RaceCall ==
    /\ ops < MaxCalls
    /\ ops' = ops + 1
    /\ \E k \in Callers, c \in RaceCalls :
          /\ calls[k].pc = "idle"
          /\ c.op = "createChapter" => nextId < Len(IdPool)
          /\ calls' = [calls EXCEPT ![k] = [c EXCEPT !.pc = FirstStep(c.op)]]
          /\ nextId' = IF c.op = "createChapter" THEN nextId + 1 ELSE nextId
    /\ UNCHANGED <<projects, projectOrder, now, last>>

\* The step caller k's call is at, on the one workspace
RaceStep(k) == StepOf(projects, TheProject, calls[k], now)

\* Caller k's call takes its step; `after` is `calls` once it has
RaceTakes(k, after) ==
    /\ projects' = RaceStep(k).fs
    /\ calls' = after
    /\ UNCHANGED <<projectOrder, now, nextId, ops, last>>

Stepping(k) == [calls EXCEPT ![k] = RaceStep(k).c]

RaceLoadMeta ==
    \E k \in Callers :
        /\ calls[k].pc = "loadMeta"
        /\ RaceTakes(k, [calls EXCEPT ![k] =
                            [RaceStep(k).c EXCEPT !.early = calls[OtherCaller(k)].wrote = 0]])

RaceWriteMeta ==
    \E k \in Callers :
        /\ calls[k].pc = "writeMeta"
        /\ RaceTakes(k, [calls EXCEPT ![k] =
                            [RaceStep(k).c EXCEPT
                                !.wrote = IF calls[OtherCaller(k)].wrote = 0 THEN 1 ELSE 2]])

RaceWriteAutosave ==
    \E k \in Callers :
        /\ calls[k].pc = "writeAutosave"
        /\ LET o == OtherCaller(k)
               committing == /\ calls[o].pc # "idle"
                             /\ calls[o].op = "saveChapter"
                             /\ calls[o].id = calls[k].id
           IN  RaceTakes(k, [calls EXCEPT ![k] = RaceStep(k).c,
                                          ![o].late = @ \/ committing])

RaceReadCanonical ==
    \E k \in Callers : calls[k].pc = "readCanonical" /\ RaceTakes(k, Stepping(k))
RaceWriteChapter ==
    \E k \in Callers : calls[k].pc = "writeChapter" /\ RaceTakes(k, Stepping(k))
RaceWriteSnapshot ==
    \E k \in Callers : calls[k].pc = "writeSnapshot" /\ RaceTakes(k, Stepping(k))
RacePruneSnapshots ==
    \E k \in Callers : calls[k].pc = "pruneSnapshots" /\ RaceTakes(k, Stepping(k))
RaceRemoveChapterFile ==
    \E k \in Callers : calls[k].pc = "removeChapterFile" /\ RaceTakes(k, Stepping(k))
RaceRemoveAutosave ==
    \E k \in Callers : calls[k].pc = "removeAutosave" /\ RaceTakes(k, Stepping(k))
RaceRemoveTimeline ==
    \E k \in Callers : calls[k].pc = "removeTimeline" /\ RaceTakes(k, Stepping(k))

NextRace ==
    \/ Advance
    \/ RaceCall
    \/ RaceLoadMeta
    \/ RaceReadCanonical
    \/ RaceWriteMeta
    \/ RaceWriteChapter
    \/ RaceWriteSnapshot
    \/ RacePruneSnapshots
    \/ RaceRemoveChapterFile
    \/ RaceRemoveAutosave
    \/ RaceRemoveTimeline
    \/ RaceWriteAutosave

SpecRace == InitRace /\ [][NextRace]_vars

\* C23 (an autosave is removed only by a commit that subsumes it): when the
\* last step of a commit removes the autosave file of its chapter, no draft
\* of that chapter was written after the commit was invoked.
C23_CommitSubsumesDraft ==
    [][\A k \in Callers :
          (/\ calls[k].op = "saveChapter"
           /\ calls[k].pc = "removeAutosave"
           /\ calls'[k].pc = "idle"
           /\ calls[k].id \in DOMAIN Dir(projects).autosave
           /\ calls[k].id \notin DOMAIN Dir(projects').autosave)
          => ~calls[k].late]_vars

\* C24 (same-project race, last write wins on project.json): when the calls
\* of two callers both loaded project.json before either wrote it, then once
\* both have returned project.json is the record the second writer built
\* from what it loaded; a node the first writer created is not in the tree,
\* while the chapter files both created are on disk.
C24_LastWriteWins ==
    \A k \in Callers :
        LET c == calls[k]
            o == calls[OtherCaller(k)]
            meta == Dir(projects).meta
            ids == IdsOf(AllNodes(meta.chapters))
        IN  (/\ c.pc = "idle" /\ o.pc = "idle"
             /\ c.early /\ o.early
             /\ c.wrote = 2 /\ o.wrote = 1)
            => /\ meta = MetaToWrite(c, meta.updatedAt)
               /\ o.op = "createChapter" => o.id \notin ids
               /\ (c.op = "createChapter" /\ o.op = "createChapter")
                     => /\ c.id \in ids
                        /\ {c.id, o.id} \subseteq DOMAIN Dir(projects).chapters

\* Two createChapter calls raced: both loaded before either wrote, c2 wrote
\* first and c1 second, and both have returned.
C24_Witness ==
    /\ calls["c1"].op = "createChapter" /\ calls["c2"].op = "createChapter"
    /\ calls["c1"].pc = "idle" /\ calls["c2"].pc = "idle"
    /\ calls["c1"].early /\ calls["c2"].early
    /\ calls["c1"].wrote = 2 /\ calls["c2"].wrote = 1
    /\ calls["c1"].id \in IdsOf(Tree(projects))
    /\ calls["c2"].id \in DOMAIN Dir(projects).chapters

\* C25 (no orphaned files): after every completed operation, run one after
\* another, every chapter file, autosave file and snapshot directory of the
\* project belongs to a node that is in the persisted tree.
C25_NoOrphanedFiles ==
    HasMeta(projects) => StoredIds(projects) \subseteq IdsOf(AllNodes(Tree(projects)))

\* C26 (autosave on a missing target changes nothing): autosaveChapter for a
\* project that does not exist or has no readable project.json, or with an id
\* that is no node of the project, leaves the workspace as it was: no
\* directory and no draft file created, project.json unchanged.
C26_AutosaveMissingTarget ==
    [][(/\ Stepped
        /\ last'.op = "autosaveChapter"
        /\ ~IsNode(projects, last'.id))
       => projects' = projects]_vars

-----------------------------------------------------------------------------
(* Two callers of the workspace: createProject, listProjects and             *)
(* reorderProjects run one awaited file operation at a time, and their      *)
(* steps interleave in any order.  Callers send lists that repeat no id.    *)

\* A workspace call: its arguments, the step it is at, and what it holds in
\* memory: the directory entries still to load, the ids in projectsMap, the
\* order it is about to save, whether reorderProjects is in its second
\* listProjects, and the ids of the projects returned
NoWorkspaceCall ==
    [pc |-> "idle", op |-> "none", id |-> NoParent, order |-> << >>,
     entries |-> << >>, map |-> << >>, normal |-> << >>, second |-> FALSE,
     listed |-> << >>]

OneProject == createProject(EmptyDir, << >>, "p1", "t0", "d0", T0)

InitOrderRace ==
    /\ projects = OneProject.fs
    /\ projectOrder = OneProject.order
    /\ now = T0
    /\ nextId = 1
    /\ ops = 0
    /\ last = NoOp
    /\ calls = [k \in Callers |-> NoWorkspaceCall]

\* Lists of issued project ids, none repeated
DistinctOrderLists ==
    {l \in UNION {[1..n -> IssuedProjects] : n \in 0..MaxOrderLen} :
        \A i, j \in 1..Len(l) : l[i] = l[j] => i = j}

WorkspaceCalls ==
    {[NoWorkspaceCall EXCEPT !.op = "createProject", !.pc = "makeDirs",
                             !.id = ProjectPool[nextId + 1]],
     [NoWorkspaceCall EXCEPT !.op = "listProjects", !.pc = "readdir"]}
    \cup {[NoWorkspaceCall EXCEPT !.op = "reorderProjects", !.pc = "readdir", !.order = l] :
             l \in DistinctOrderLists}

\* A workspace step of caller k: the project directories, projects.json and
\* the call afterwards
WorkspaceTakes(k, fs, order, c) ==
    /\ projects' = fs
    /\ projectOrder' = order
    /\ calls' = [calls EXCEPT ![k] = c]
    /\ UNCHANGED <<now, nextId, ops, last>>

OrderCall ==
    /\ ops < MaxCalls
    /\ ops' = ops + 1
    /\ \E k \in Callers, c \in WorkspaceCalls :
          /\ calls[k].pc = "idle"
          /\ c.op = "createProject" => nextId < Len(ProjectPool)
          /\ calls' = [calls EXCEPT ![k] = c]
          /\ nextId' = IF c.op = "createProject" THEN nextId + 1 ELSE nextId
    /\ UNCHANGED <<projects, projectOrder, now, last>>

\* createProject: ensureDir of the project directory and of its three folders
MakeDirs ==
    \E k \in Callers :
        /\ calls[k].pc = "makeDirs"
        /\ WorkspaceTakes(k, ensureDir(projects, calls[k].id), projectOrder,
                          [calls[k] EXCEPT !.pc = "writeNewMeta"])

\* createProject: Date.now() and writeProjectMeta(id, initialMeta)
WriteNewMeta ==
    \E k \in Callers :
        /\ calls[k].pc = "writeNewMeta"
        /\ WorkspaceTakes(k,
               createProject(projects, << >>, calls[k].id, "t0", "d0", now).fs,
               projectOrder, [calls[k] EXCEPT !.pc = "loadOrder"])

\* listProjects: fs.readdir(PROJECTS_ROOT), in any order
Readdir ==
    \E k \in Callers, entries \in Entries(projects) :
        /\ calls[k].pc = "readdir"
        /\ WorkspaceTakes(k, projects, projectOrder,
               [calls[k] EXCEPT !.entries = entries, !.map = << >>,
                                !.pc = IF entries = << >> THEN "loadOrder" ELSE "loadEntry"])

\* listProjects: loadProjectMeta(entry.name) and the chapters of one entry
LoadEntry ==
    \E k \in Callers :
        /\ calls[k].pc = "loadEntry"
        /\ LET c == calls[k]
               name == Head(c.entries)
               readable == loadProjectMeta(projects, name) # NoMeta
           IN  WorkspaceTakes(k, projects, projectOrder,
                   [c EXCEPT !.entries = Tail(@),
                             !.map = IF readable THEN Append(@, name) ELSE @,
                             !.pc = IF Tail(c.entries) = << >> THEN "loadOrder"
                                    ELSE "loadEntry"])

\* What reorderProjects does when one of its listProjects calls returns
\* `listed`: builds finalOrder after the first, returns after the second
ListReturns(c, listed) ==
    IF c.op = "reorderProjects" /\ ~c.second
    THEN LET Exists(id) == \E i \in 1..Len(listed) : listed[i] = id
             filtered == SelectSeq(c.order, Exists)
             Remains(id) == \A i \in 1..Len(filtered) : filtered[i] # id
         IN  [c EXCEPT !.normal = filtered \o SelectSeq(listed, Remains),
                       !.pc = "saveFinal"]
    ELSE [c EXCEPT !.listed = listed, !.pc = "idle"]

\* await loadProjectOrder(): createProject pushes its id; listProjects
\* builds normalizedOrder and compares it with what it loaded
LoadOrder ==
    \E k \in Callers :
        /\ calls[k].pc = "loadOrder"
        /\ LET c == calls[k]
               order == loadProjectOrder(projectOrder)
               InMap(id) == \E i \in 1..Len(c.map) : c.map[i] = id
               orderedIds == SelectSeq(order, InMap)
               Missing(id) == \A i \in 1..Len(orderedIds) : orderedIds[i] # id
               normalizedOrder ==
                   orderedIds \o SortByCreatedAt(projects, SelectSeq(c.map, Missing))
           IN  WorkspaceTakes(k, projects, projectOrder,
                   IF c.op = "createProject"
                   THEN [c EXCEPT !.normal = Append(order, c.id), !.pc = "saveOrder"]
                   ELSE IF normalizedOrder # order
                   THEN [c EXCEPT !.normal = normalizedOrder, !.pc = "saveOrder"]
                   ELSE ListReturns(c, normalizedOrder))

\* await saveProjectOrder(order) in createProject, of normalizedOrder in
\* listProjects
SaveOrder ==
    \E k \in Callers :
        /\ calls[k].pc = "saveOrder"
        /\ LET c == calls[k]
           IN  WorkspaceTakes(k, projects, saveProjectOrder(c.normal),
                   IF c.op = "createProject"
                   THEN [c EXCEPT !.listed = <<c.id>>, !.pc = "idle"]
                   ELSE ListReturns(c, c.normal))

\* reorderProjects: await saveProjectOrder(finalOrder), then listProjects again
SaveFinal ==
    \E k \in Callers :
        /\ calls[k].pc = "saveFinal"
        /\ WorkspaceTakes(k, projects, saveProjectOrder(calls[k].normal),
               [calls[k] EXCEPT !.second = TRUE, !.pc = "readdir"])

NextOrderRace ==
    \/ Advance
    \/ OrderCall
    \/ MakeDirs
    \/ WriteNewMeta
    \/ Readdir
    \/ LoadEntry
    \/ LoadOrder
    \/ SaveOrder
    \/ SaveFinal

SpecOrderRace == InitOrderRace /\ [][NextOrderRace]_vars

\* C27 (the display order never holds a project id twice): under any
\* interleaving of the steps of createProject, listProjects and
\* reorderProjects calls, projects.json holds each project id at most once
\* and no call returns the same project twice.
C27_OrderHasNoDuplicates ==
    \A id \in IssuedProjects :
        /\ Mentions(projectOrder, id) <= 1
        /\ \A k \in Callers : calls[k].pc = "idle" => Mentions(calls[k].listed, id) <= 1

-----------------------------------------------------------------------------
(* Loading a project.json that some other program, or an older version,     *)
(* wrote: any of its fields may be missing.  A field of such a record is    *)
(* {} when it is missing and {v} when it holds v.                           *)

Has(field) == field # {}
Val(field) == CHOOSE v \in field : TRUE
Or(field, default) == IF Has(field) THEN Val(field) ELSE default

\* normalizeChapterTree(chapters, fallbackTime), on nodes with missing fields
RECURSIVE normalizeStoredTree(_, _)
normalizeStoredTree(chapters, fallbackTime) ==
    [i \in 1..Len(chapters) |->
        LET chapter == chapters[i]
            kind == Or(chapter.kind, DEFAULT_CHAPTER_KIND)
            children == normalizeStoredTree(Or(chapter.children, << >>), fallbackTime)
        IN  [id |-> chapter.id,
             kind |-> {kind},
             children |-> {children},
             updatedAt |-> {Or(chapter.updatedAt, fallbackTime)},
             words |-> {IF kind = "group"
                        THEN SumSeq([j \in 1..Len(children) |-> Val(children[j].words)])
                        ELSE Or(chapter.words, 0)}]]

\* refreshAggregateWords, on normalized stored nodes
RECURSIVE refreshStoredWords(_)
refreshStoredWords(node) ==
    IF Val(node.kind) = "chapter" THEN node
    ELSE LET kids == [i \in 1..Len(Val(node.children)) |->
                         refreshStoredWords(Val(node.children)[i])]
         IN  [node EXCEPT !.children = {kids},
                          !.words = {SumSeq([i \in 1..Len(kids) |-> Val(kids[i].words)])}]

RECURSIVE sumStoredLeafWords(_)
sumStoredLeafWords(chapters) ==
    IF chapters = << >> THEN 0
    ELSE (IF Val(Head(chapters).kind) = "chapter" THEN Val(Head(chapters).words)
          ELSE sumStoredLeafWords(Val(Head(chapters).children)))
         + sumStoredLeafWords(Tail(chapters))

\* loadProjectMeta on a stored record (NoMeta: no file, or not JSON), with
\* the clock at t: the meta returned (NoMeta for null) and project.json
\* afterwards
loadStoredMeta(stored, t) ==
    IF stored = NoMeta THEN [meta |-> NoMeta, file |-> stored]
    ELSE LET createdAt == IF Has(stored.createdAt) /\ Val(stored.createdAt) # 0
                          THEN Val(stored.createdAt) ELSE t
             updatedAt == IF Has(stored.updatedAt) /\ Val(stored.updatedAt) # 0
                          THEN Val(stored.updatedAt) ELSE createdAt
             dirty == \/ ~(Has(stored.createdAt) /\ Val(stored.createdAt) # 0)
                      \/ ~(Has(stored.updatedAt) /\ Val(stored.updatedAt) # 0)
                      \/ ~Has(stored.description)
                      \/ ~Has(stored.chapters)
             chapters == normalizeStoredTree(Or(stored.chapters, << >>), updatedAt)
             refreshed == [i \in 1..Len(chapters) |-> refreshStoredWords(chapters[i])]
             meta == [id |-> stored.id,
                      createdAt |-> {createdAt},
                      updatedAt |-> {updatedAt},
                      description |-> {Or(stored.description, "")},
                      chapters |-> {refreshed},
                      words |-> {sumStoredLeafWords(refreshed)}]
         IN  [meta |-> meta, file |-> IF dirty THEN meta ELSE stored]

\* Stored nodes: n2 below n1, each field present or not
StoredLeaves ==
    [id : {"n2"}, kind : {{}, {"chapter"}, {"group"}}, updatedAt : {{}, {T0}},
     words : {{}, {1}}, children : {{}, {<< >>}}]

StoredRoots ==
    [id : {"n1"}, kind : {{}, {"chapter"}, {"group"}}, updatedAt : {{}, {T0}},
     words : {{}, {1}},
     children : {{}, {<< >>}} \cup {{<<leaf>>} : leaf \in StoredLeaves}]

StoredRecords ==
    [id : {TheProject}, createdAt : {{}, {T0}}, updatedAt : {{}, {T0}},
     description : {{}, {"d0"}},
     chapters : {{}, {<< >>}} \cup {{<<root>>} : root \in StoredRoots},
     words : {{0}}]

InitStored ==
    /\ \E stored \in StoredRecords \cup {NoMeta} :
          projects = Put(EmptyDir, TheProject, [EmptyProjectDir EXCEPT !.meta = stored])
    /\ projectOrder = <<TheProject>>
    /\ now = T0
    /\ nextId = 2
    /\ ops = 0
    /\ last = NoOp
    /\ calls = NoCalls

\* loadProjectMeta(projectId); last.ret tells whether it returned null
LoadStored ==
    /\ ops < MaxLoads
    /\ ops' = ops + 1
    /\ LET r == loadStoredMeta(projects[TheProject].meta, now)
       IN  /\ projects' = [projects EXCEPT ![TheProject].meta = r.file]
           /\ last' = [NoOp EXCEPT !.op = "loadProjectMeta",
                                   !.ret = IF r.meta = NoMeta THEN "null" ELSE "meta",
                                   !.at = now]
    /\ UNCHANGED <<projectOrder, now, nextId, calls>>

NextStored ==
    \/ Tick
    \/ LoadStored

SpecStored == InitStored /\ [][NextStored]_vars

\* Some node of a stored tree misses its kind, timestamp, word count or
\* children
RECURSIVE NodeMissesField(_)
NodeMissesField(chapters) ==
    \E i \in 1..Len(chapters) :
        \/ ~Has(chapters[i].kind)
        \/ ~Has(chapters[i].updatedAt)
        \/ ~Has(chapters[i].words)
        \/ ~Has(chapters[i].children)
        \/ (Has(chapters[i].children) /\ NodeMissesField(Val(chapters[i].children)))

\* C28 (load persists exactly when it defaulted something): loadProjectMeta
\* rewrites project.json if and only if the stored record missed createdAt,
\* updatedAt, description or the tree, or one of its nodes missed a field;
\* a missing or unparseable file gives null and is not written.
C28_LoadPersistsDefaults ==
    [][(Stepped /\ last'.op = "loadProjectMeta")
       => LET stored == projects[TheProject].meta
              written == projects'[TheProject].meta # stored
          IN  IF stored = NoMeta THEN last'.ret = "null" /\ ~written
              ELSE written <=>
                     \/ ~Has(stored.createdAt)
                     \/ ~Has(stored.updatedAt)
                     \/ ~Has(stored.description)
                     \/ ~Has(stored.chapters)
                     \/ (Has(stored.chapters) /\ NodeMissesField(Val(stored.chapters)))]_vars

-----------------------------------------------------------------------------
(* Every operation of the store on a project that holds content: a group n1 *)
(* with the chapter n2 in it, n2 committed once and autosaved after that.   *)

ContentStart ==
    LET fs0 == Built(Fresh.fs, <<<<"group", NoParent>>, <<"chapter", "n1">>>>, 1)
        fs1 == saveChapter(fs0, TheProject, "n2", <<"a">>, T0).fs
    IN  autosaveChapter(fs1, TheProject, "n2", <<"a", " ", "a">>, T0).fs

InitContent ==
    /\ projects = ContentStart
    /\ nextId = 2
    /\ projectOrder = Fresh.order
    /\ now = T0
    /\ ops = 0
    /\ last = NoOp
    /\ calls = NoCalls

NextContent ==
    \/ Advance
    \/ CreateChapter(MaxContentOps)
    \/ AutosaveChapter(MaxContentOps)
    \/ SaveChapter(MaxContentOps)
    \/ DeleteChapter(MaxContentOps)
    \/ MoveChapter(MaxContentOps)
    \/ ReorderChapters(MaxContentOps)
    \/ RenameProject(MaxContentOps)
    \/ UpdateProjectDescription(MaxContentOps)
    \/ DeleteProject(MaxContentOps)
    \/ DeleteSnapshot(MaxContentOps)

SpecContent == InitContent /\ [][NextContent]_vars

StructuralOps ==
    {"createChapter", "moveChapter", "reorderChapters", "renameProject",
     "updateProjectDescription"}

\* The directory of a project, empty when the project is gone
Storage(fs) == IF TheProject \in DOMAIN fs THEN Dir(fs) ELSE EmptyProjectDir

\* C29 (structural and descriptive operations do not touch content):
\* createChapter, moveChapter, reorderChapters, renameProject and
\* updateProjectDescription leave every chapter file (but the one of the node
\* createChapter makes), every autosave file and every snapshot as they were;
\* the snapshots of a node change only in a saveChapter of that node with
\* changed content (which adds at most the snapshot of this commit), in a
\* deleteSnapshot of that node, in a deleteChapter of the node or of a group
\* above it, or in deleteProject.
C29_StructureKeepsContent ==
    [][Stepped
       => LET before == Storage(projects)
              after == Storage(projects')
          IN  /\ last'.op \in StructuralOps
                    => /\ after.autosave = before.autosave
                       /\ after.timeline = before.timeline
                       /\ \A id \in DOMAIN before.chapters :
                             /\ id \in DOMAIN after.chapters
                             /\ after.chapters[id] = before.chapters[id]
                       /\ DOMAIN after.chapters \subseteq
                              DOMAIN before.chapters \cup
                              (IF last'.op = "createChapter" THEN {last'.id} ELSE {})
              /\ \A id \in DOMAIN before.timeline \cup DOMAIN after.timeline :
                    Snapshots(projects', id) # Snapshots(projects, id)
                    => \/ /\ last'.op = "saveChapter"
                          /\ last'.id = id
                          /\ ~SameAfterNormalize(Committed(projects, id), last'.content)
                          /\ Committed(projects', id) = last'.content
                          /\ DOMAIN Snapshots(projects', id) \subseteq
                                 DOMAIN Snapshots(projects, id) \cup {now}
                          /\ \A stamp \in DOMAIN Snapshots(projects', id) \ {now} :
                                Snapshots(projects', id)[stamp] = Snapshots(projects, id)[stamp]
                       \/ /\ last'.op = "deleteSnapshot"
                          /\ last'.id = id
                       \/ /\ last'.op = "deleteChapter"
                          /\ IsNode(projects, last'.id)
                          /\ id \in SubtreeIds(Node(projects, last'.id))
                       \/ last'.op = "deleteProject"]_vars

\* n2 has been moved out of its group to the root, after a chapter was made:
\* its committed content, its draft and its snapshot are those of the start.
C29_Witness ==
    /\ last.op = "moveChapter"
    /\ last.id = "n2"
    /\ last.ret = "project"
    /\ ops = 2
    /\ HasMeta(projects)
    /\ \E i \in 1..Len(Tree(projects)) : Tree(projects)[i].id = "n2"
    /\ "n3" \in DOMAIN Dir(projects).chapters
    /\ Committed(projects, "n2") = <<"a">>
    /\ Dir(projects).autosave = ContentStart[TheProject].autosave
    /\ Snapshots(projects, "n2") = ContentStart[TheProject].timeline["n2"]
    /\ Snapshots(projects, "n2") # EmptyDir

-----------------------------------------------------------------------------
(* The timeline viewer of the editor (useTimeline and the editor store) on  *)
(* the chapter n1, which has two snapshots.  `calls` holds the store's      *)
(* timeline fields, the draft, and the readSnapshot requests that have been *)
(* sent and not answered.  selectedSnapshot and snapshotPreview are {} for  *)
(* null.  The entries are those the hook loaded when it mounted.            *)

ViewedChapter == "n1"

ViewerStart ==
    LET fs0 == Built(Fresh.fs, <<<<"chapter", NoParent>>>>, 1)
        fs1 == saveChapter(fs0, TheProject, ViewedChapter, <<"a">>, T0).fs
    IN  saveChapter(fs1, TheProject, ViewedChapter, <<"a", "a">>, T0 + 1).fs

InitViewer ==
    /\ projects = ViewerStart
    /\ nextId = 1
    /\ projectOrder = Fresh.order
    /\ now = T0 + 1
    /\ ops = 0
    /\ last = NoOp
    /\ calls = [isTimelineOpen |-> FALSE,
                timelineEntries |-> listSnapshots(ViewerStart, TheProject, ViewedChapter),
                selectedSnapshot |-> {},
                snapshotPreview |-> {},
                snapshotPreviewLoading |-> FALSE,
                draftText |-> readFileIfExists(ViewerStart[TheProject].chapters, ViewedChapter),
                flight |-> {}]

\* closeTimeline of the editor store
closeTimeline(state) ==
    [state EXCEPT !.isTimelineOpen = FALSE,
                  !.selectedSnapshot = {},
                  !.snapshotPreview = {},
                  !.snapshotPreviewLoading = FALSE]

\* handleSelectSnapshot up to its await: the request is sent
selectSnapshotSent(state, timestamp, n) ==
    [state EXCEPT !.selectedSnapshot = {timestamp},
                  !.snapshotPreviewLoading = TRUE,
                  !.flight = @ \cup {[n |-> n, timestamp |-> timestamp]}]

\* `content ?? null` of what readSnapshot answers: {} for null
snapshotContent(fs, timestamp) ==
    IF timestamp \in DOMAIN Snapshots(fs, ViewedChapter)
    THEN {readSnapshot(fs, TheProject, ViewedChapter, timestamp)}
    ELSE {}

\* handleSelectSnapshot after its await: the answer of one request is stored
selectSnapshotAnswered(state, request, content) ==
    [state EXCEPT !.snapshotPreview = content,
                  !.snapshotPreviewLoading = FALSE,
                  !.flight = @ \ {request}]

Clicked(state, l) ==
    /\ ops < MaxViewerOps
    /\ ops' = ops + 1
    /\ calls' = state
    /\ last' = [l EXCEPT !.at = now]
    /\ UNCHANGED <<projects, projectOrder, now, nextId>>

\* openTimelineWithData, the entries being loaded
OpenTimeline ==
    /\ ~calls.isTimelineOpen
    /\ Cardinality(calls.flight) < MaxRequests
    /\ LET opened == [calls EXCEPT !.isTimelineOpen = TRUE]
       IN  Clicked(IF calls.selectedSnapshot = {} /\ Len(calls.timelineEntries) > 0
                   THEN selectSnapshotSent(opened, calls.timelineEntries[1].timestamp, ops)
                   ELSE opened,
                   [NoOp EXCEPT !.op = "openTimeline"])

\* A click on an entry of the open panel
SelectSnapshot ==
    \E i \in 1..Len(calls.timelineEntries) :
        /\ calls.isTimelineOpen
        /\ Cardinality(calls.flight) < MaxRequests
        /\ Clicked(selectSnapshotSent(calls, calls.timelineEntries[i].timestamp, ops),
                   [NoOp EXCEPT !.op = "selectSnapshot",
                                !.stamp = calls.timelineEntries[i].timestamp])

\* The answer to one of the requests in flight arrives
SnapshotRead ==
    \E request \in calls.flight :
        /\ calls' = selectSnapshotAnswered(calls, request,
                                            snapshotContent(projects, request.timestamp))
        /\ UNCHANGED <<projects, projectOrder, now, nextId, ops, last>>

\* handleRestoreSnapshot; last.stamp is the snapshot selected at the click
\* (0 for none)
RestoreSnapshot ==
    /\ calls.isTimelineOpen
    /\ calls.snapshotPreview # {}
    /\ Val(calls.snapshotPreview) # << >>
    /\ Clicked(closeTimeline([calls EXCEPT !.draftText = Val(calls.snapshotPreview)]),
               [NoOp EXCEPT !.op = "restoreSnapshot",
                            !.stamp = Or(calls.selectedSnapshot, 0)])

\* The panel's close button
CloseTimeline ==
    /\ calls.isTimelineOpen
    /\ Clicked(closeTimeline(calls), [NoOp EXCEPT !.op = "closeTimeline"])

NextViewer ==
    \/ OpenTimeline
    \/ SelectSnapshot
    \/ SnapshotRead
    \/ RestoreSnapshot
    \/ CloseTimeline

SpecViewer == InitViewer /\ [][NextViewer]_vars

\* C30 (timeline preview matches the selection): when no snapshot read is in
\* flight, the preview is the content of the selected snapshot of the chapter
\* (null when none is selected), in whatever order the answers to overlapping
\* selections arrived; and a restore puts the content of the snapshot that was
\* selected at that moment into the draft.
C30_PreviewMatchesSelection ==
    /\ calls.flight = {}
          => calls.snapshotPreview =
                 IF calls.selectedSnapshot = {} THEN {}
                 ELSE snapshotContent(projects, Val(calls.selectedSnapshot))
    /\ last.op = "restoreSnapshot"
          => /\ last.stamp # 0
             /\ {calls.draftText} = snapshotContent(projects, last.stamp)


====
